---- MODULE Spec2Model ----
(***************************************************************************)
(* Model of the event-planner RSVP service: the SQLite store (events,      *)
(* rsvps), the request handlers of routes/rsvps.js and the event deletion  *)
(* of routes/events.js.  A request is a process in a slot; every action is *)
(* one store statement together with the callback that receives its        *)
(* result, which is the granularity at which concurrent requests           *)
(* interleave (each request opens its own connection, no transaction).     *)
(***************************************************************************)
EXTENDS Integers, Sequences, FiniteSets, TLC

\* ---- bounds of the model
MaxUsers == 2       \* users 1..MaxUsers
MaxCap == 1         \* an event's max_attendees is NULL or 1..MaxCap
MaxRsvpId == 2      \* no POST /rsvps is admitted once rsvps.id could pass it
MaxRequests == 2    \* requests admitted by a specification that overlaps them

\* ---- program constants
MaxNoteLen == 500

\* absent values, one per type: SQL NULL / undefined in a number, a row, a
\* text and a name
Null == -1
NoRow == [id |-> Null]
NoNotes == <<"NULL">>
NoName == "NULL"
NoText == <<"NULL">>

Users == 1..MaxUsers

\* at most two requests are served at the same time
Slots == {1, 2}

\* two browsers, each with its own session cookie
Browsers == {1, 2}

\* the events table has room for one event, id 1; the clock starts at 1 and
\* may advance to 2; an event is dated 1 (not in the future from the start),
\* 2 (in the future until the clock advances) or 3 (always in the future)
EventIds == {1}
Times == {1, 2}
EventDates == {1, 2, 3}

\* users.role: the seeded administrator is user 1, everybody else is 'user'
Role(u) == IF u = 1 THEN "admin" ELSE "user"

EventStatuses == {"active", "cancelled", "completed"}
RsvpStatuses == {"attending", "maybe", "not_attending"}

\* The connections of getDb() never issue PRAGMA foreign_keys = ON, and
\* SQLite does not enforce foreign keys unless a connection asks for it.
ForeignKeys == FALSE

VARIABLES
    events,      \* events table: id -> row, or NoRow when no such row
    rsvps,       \* rsvps table: a set of rows
    nextRsvpId,  \* AUTOINCREMENT sequence of rsvps.id
    nextEventId, \* AUTOINCREMENT sequence of events.id
    now,         \* the clock (CURRENT_TIMESTAMP, new Date())
    reqs,        \* slot -> the request being served there: where it is (pc),
                 \* when it arrived (at), its session user and inputs, the
                 \* rows its callbacks hold, and its response once sent
    nreq,        \* number of requests admitted while requests may overlap
    scen,        \* outcomes of the capacity scenario's requests, in order
    users,       \* users table: a set of rows
    nextUserId,  \* AUTOINCREMENT sequence of users.id
    sessions,    \* session store: browser session -> req.session
    areqs        \* browser session -> its request to /auth or to a gated
                 \* route: where it is (pc), its body, what its callbacks
                 \* hold, its response once sent

rsvpVars == <<events, rsvps, nextRsvpId, nextEventId, now, reqs, nreq, scen>>
authVars == <<users, nextUserId, sessions, areqs>>
vars == <<events, rsvps, nextRsvpId, nextEventId, now, reqs, nreq, scen,
          users, nextUserId, sessions, areqs>>

\* ---- request inputs
NoteTexts == {<<>>, <<"a">>, [i \in 1..(MaxNoteLen + 1) |-> "x"]}
NoteInputs == {NoNotes} \cup NoteTexts
StatusInputs == RsvpStatuses \cup {"bogus"}
EventIdInputs == {0} \cup EventIds \cup {2}
SessionInputs == {Null} \cup Users
WellFormedNotes == {n \in NoteInputs : n = NoNotes \/ Len(n) <= MaxNoteLen}

Idle ==
    [pc |-> "idle", op |-> NoName, at |-> Null, user |-> Null,
     eventId |-> Null, status |-> NoName, notes |-> NoNotes, event |-> NoRow,
     existingRSVP |-> Null, eventDate |-> Null, maxAttendees |-> Null,
     resp |-> NoRow]

\* a browser with no request to /auth or to a gated route
AuthIdle ==
    [pc |-> "idle", op |-> NoName, username |-> NoText, email |-> NoText,
     password |-> NoText, lastID |-> Null, resp |-> NoRow]

Response(code, text, row) == [code |-> code, text |-> text, rsvp |-> row]

InFlight(s) == reqs[s].pc \notin {"idle", "done"}
Quiet == \A s \in Slots : reqs[s].pc = "idle"

\* ---- store queries
\* as RowsOf, the WHERE clause without user_id = ?
RowsOfAnyUser(u, e) == {r \in rsvps : r.event_id = e}

\* WHERE user_id = ? AND event_id = ?
RowsOf(u, e) == {r \in rsvps : r.user_id = u /\ r.event_id = e}
AttendingCount(e) ==
    Cardinality({r \in rsvps : r.event_id = e /\ r.status = "attending"})

\* ---- users and sessions
\* texts are sequences of characters
AdminName == <<"a", "d", "m", "i", "n">>
AdminEmail == <<"a", "@", "e">>
AdminPassword == <<"a", "d", "m", "i", "n", "1", "2", "3">>
UserPassword == <<"u", "s", "e", "r", "1", "2", "3">>

\* bcrypt.hash and bcrypt.compare
Hash(password) == <<"bcrypt", password>>
Compare(password, password_hash) == password_hash = Hash(password)

\* the users of seed.js: user 1 is admin, the others are plain users
SeedUser(u) ==
    IF u = 1
    THEN [id |-> 1, username |-> AdminName, email |-> AdminEmail,
          password_hash |-> Hash(AdminPassword), role |-> "admin"]
    ELSE [id |-> u, username |-> <<"u", "s", "e", "r", ToString(u)>>,
          email |-> <<"u", ToString(u), "@", "e">>,
          password_hash |-> Hash(UserPassword), role |-> "user"]
SeedUsers == {SeedUser(u) : u \in Users}

\* what login and registration put in req.session.user: the row without
\* the credential
SessionUser(row) ==
    [id |-> row.id, username |-> row.username, email |-> row.email,
     role |-> row.role]

\* req.session of a browser that is not logged in
Anonymous == [user |-> NoRow]

\* req.session of a request made by user u, or by nobody (Null)
SessionOf(u) ==
    IF u = Null THEN Anonymous ELSE [user |-> SessionUser(SeedUser(u))]

\* JavaScript truthiness of a number and of a text that may be undefined
TruthyNumber(n) == n # Null /\ n # 0
TruthyText(x) == x # NoText /\ x # <<>>

\* ---- middleware
\* as AuthMiddleware, the check of the session's user data left out
AuthMiddlewareNoDataCheck(session) ==
    IF session = NoRow \/ session.user = NoRow
    THEN Response(401, "Authentication required", NoRow)
    ELSE NoRow

\* authMiddleware: the response that rejects the request, or NoRow for next()
AuthMiddleware(session) ==
    IF session = NoRow \/ session.user = NoRow
    THEN Response(401, "Authentication required", NoRow)
    ELSE IF ~TruthyNumber(session.user.id) \/ ~TruthyText(session.user.username)
    THEN Response(401, "Invalid session", NoRow)
    ELSE NoRow

\* what a gate did with a request: the responses it sent, how many times it
\* called next(), and the req.currentUser it attached (optional gate only)
GateOutcome(responses, nexts, currentUser) ==
    [responses |-> responses, nexts |-> nexts, currentUser |-> currentUser]

\* authMiddleware as a gate
AuthGate(session) ==
    IF AuthMiddleware(session) # NoRow
    THEN GateOutcome(<<AuthMiddleware(session)>>, 0, NoRow)
    ELSE GateOutcome(<<>>, 1, NoRow)

\* as AdminGate, the 403 branch without its return
AdminGateFallsThrough(session) ==
    IF AuthMiddleware(session) # NoRow
    THEN GateOutcome(<<AuthMiddleware(session)>>, 0, NoRow)
    ELSE IF session.user.role # "admin"
    THEN GateOutcome(<<Response(403, "Admin access required", NoRow)>>, 1, NoRow)
    ELSE GateOutcome(<<>>, 1, NoRow)

\* adminMiddleware: authMiddleware with a continuation that checks the role
AdminGate(session) ==
    IF AuthMiddleware(session) # NoRow
    THEN GateOutcome(<<AuthMiddleware(session)>>, 0, NoRow)
    ELSE IF session.user.role # "admin"
    THEN GateOutcome(<<Response(403, "Admin access required", NoRow)>>, 0, NoRow)
    ELSE GateOutcome(<<>>, 1, NoRow)

\* optionalAuthMiddleware: req.currentUser = session user or null; next()
OptionalGate(session) ==
    GateOutcome(<<>>, 1,
                IF session # NoRow /\ session.user # NoRow
                THEN session.user ELSE NoRow)

\* as ValidateRSVP, the rule on the length of notes left out
ValidateRSVPAnyNotes(eventId, status, notes) ==
    /\ eventId \in Int /\ eventId >= 1
    /\ status \in RsvpStatuses

\* validateRSVP: eventId isInt({min: 1}), status isIn([...]), notes optional
\* isLength({max: 500})
ValidateRSVP(eventId, status, notes) ==
    /\ eventId \in Int /\ eventId >= 1
    /\ status \in RsvpStatuses
    /\ (notes = NoNotes \/ Len(notes) <= MaxNoteLen)

\* ---- pieces of the POST /rsvps flow
\* as EventLookup, the WHERE clause without AND status = "active"
EventLookupAnyStatus(id) ==
    IF id \in EventIds /\ events[id] # NoRow
    THEN [id |-> id, max_attendees |-> events[id].max_attendees,
          event_date |-> events[id].event_date]
    ELSE NoRow

\* SELECT id, title, max_attendees, event_date FROM events
\*   WHERE id = ? AND status = "active"
EventLookup(id) ==
    IF id \in EventIds /\ events[id] # NoRow /\ events[id].status = "active"
    THEN [id |-> id, max_attendees |-> events[id].max_attendees,
          event_date |-> events[id].event_date]
    ELSE NoRow

\* as IsPast, an event scheduled for this very instant still open
IsPastStrict(event_date, t) == event_date < t

\* new Date(event.event_date) <= new Date()
IsPast(event_date, t) == event_date <= t

\* as NeedsCapacityCheck, for every requested status
NeedsCapacityCheckAnyStatus(status, max_attendees) ==
    max_attendees # Null /\ max_attendees # 0

\* status === 'attending' && event.max_attendees
NeedsCapacityCheck(status, max_attendees) ==
    status = "attending" /\ max_attendees # Null /\ max_attendees # 0

\* as CapacityReached, the comparison off by one
CapacityReachedStrict(count, max_attendees) == count > max_attendees

\* result.count >= event.max_attendees
CapacityReached(count, max_attendees) == count >= max_attendees

\* notes || null
StoredNotes(notes) == IF notes = NoNotes \/ notes = <<>> THEN NoNotes ELSE notes

\* as InsertViolatesConstraint, the table lacking UNIQUE(user_id, event_id)
InsertWithoutUnique(u, e) ==
    ForeignKeys /\ (e \notin EventIds \/ events[e] = NoRow)

\* as InsertViolatesConstraint, the insert refused as well when the event is
\* full at the time of the insert
InsertChecksCapacity(u, e) ==
    \/ RowsOf(u, e) # {}
    \/ ForeignKeys /\ (e \notin EventIds \/ events[e] = NoRow)
    \/ /\ e \in EventIds
       /\ events[e] # NoRow
       /\ events[e].max_attendees # Null
       /\ AttendingCount(e) >= events[e].max_attendees

\* UNIQUE(user_id, event_id), and the foreign keys when they are enforced
InsertViolatesConstraint(u, e) ==
    \/ RowsOf(u, e) # {}
    \/ ForeignKeys /\ (e \notin EventIds \/ events[e] = NoRow)

\* INSERT INTO rsvps (user_id, event_id, status, notes) VALUES (?, ?, ?, ?)
InsertedRow(u, e, status, notes) ==
    [id |-> nextRsvpId, user_id |-> u, event_id |-> e, status |-> status,
     notes |-> StoredNotes(notes), rsvp_date |-> now]

\* as UpdatedRow, the SET clause without rsvp_date = CURRENT_TIMESTAMP
UpdatedRowKeepsDate(r, status, notes) ==
    [r EXCEPT !.status = status, !.notes = StoredNotes(notes)]

\* as UpdatedRow, the SET clause without status = ?
UpdatedRowKeepsStatus(r, status, notes) ==
    [r EXCEPT !.notes = StoredNotes(notes), !.rsvp_date = now]

\* UPDATE rsvps SET status = ?, notes = ?, rsvp_date = CURRENT_TIMESTAMP
UpdatedRow(r, status, notes) ==
    [r EXCEPT !.status = status, !.notes = StoredNotes(notes),
              !.rsvp_date = now]

\* SELECT r.*, ... FROM rsvps r JOIN events e ON r.event_id = e.id
\*   WHERE r.user_id = ? AND r.event_id = ?    (db.get: first row or undefined)
RsvpDetails(u, e) ==
    IF RowsOf(u, e) # {} /\ e \in EventIds /\ events[e] # NoRow
    THEN CHOOSE r \in RowsOf(u, e) : \A q \in RowsOf(u, e) : r.id <= q.id
    ELSE NoRow

\* ---- how a request moves
\* requests that may still insert a row
PendingPosts ==
    Cardinality({s \in Slots : InFlight(s) /\ reqs[s].op = "POST /rsvps"})

FreeSlot(s) == reqs[s].pc = "idle" /\ \A t \in Slots : t < s => reqs[t].pc # "idle"

Goto(s, pc) == reqs' = [reqs EXCEPT ![s].pc = pc]
Respond(s, resp) == reqs' = [reqs EXCEPT ![s].pc = "done", ![s].resp = resp]

DbError == Response(500, "Database error", NoRow)

\* router.post('/', authMiddleware, validateRSVP, ...) up to the first db.get
BeginPostRSVP(s, session, eventId, status, notes) ==
    /\ FreeSlot(s)
    /\ nextRsvpId + PendingPosts <= MaxRsvpId
    /\ LET r == [Idle EXCEPT !.op = "POST /rsvps", !.at = now,
                             !.user = session,
                             !.eventId = eventId, !.status = status,
                             !.notes = notes]
       IN reqs' = [reqs EXCEPT ![s] =
            IF AuthMiddleware(SessionOf(session)) # NoRow
            THEN [r EXCEPT !.pc = "done", !.resp = AuthMiddleware(SessionOf(session))]
            ELSE IF ~ValidateRSVP(eventId, status, notes)
            THEN [r EXCEPT !.pc = "done",
                           !.resp = Response(400, "Validation failed", NoRow)]
            ELSE [r EXCEPT !.pc = "getEvent"]]
    /\ UNCHANGED <<events, rsvps, nextRsvpId, now, scen, nextEventId, authVars>>

\* the event lookup and its callback: not found, past event, or on to the
\* capacity check / the upsert
GetEvent(s, err) ==
    /\ reqs[s].pc = "getEvent"
    /\ LET r == reqs[s]
           event == EventLookup(r.eventId)
       IN IF err THEN Respond(s, DbError)
          ELSE IF event = NoRow
          THEN Respond(s, Response(404, "Event not found or inactive", NoRow))
          ELSE IF IsPast(event.event_date, now)
          THEN Respond(s, Response(400, "Cannot RSVP to past events", NoRow))
          ELSE reqs' = [reqs EXCEPT ![s].event = event, ![s].pc =
                 IF NeedsCapacityCheck(r.status, event.max_attendees)
                 THEN "countAttending" ELSE "findExisting"]
    /\ UNCHANGED <<events, rsvps, nextRsvpId, now, nreq, scen, nextEventId, authVars>>

\* SELECT COUNT(*) ... WHERE event_id = ? AND status = "attending", and its
\* callback
CountAttending(s, err) ==
    /\ reqs[s].pc = "countAttending"
    /\ LET r == reqs[s]
       IN IF err THEN Respond(s, DbError)
          ELSE IF CapacityReached(AttendingCount(r.eventId), r.event.max_attendees)
          THEN Respond(s, Response(400, "Event is at full capacity", NoRow))
          ELSE Goto(s, "findExisting")
    /\ UNCHANGED <<events, rsvps, nextRsvpId, now, nreq, scen, nextEventId, authVars>>

\* as FindExisting, the callback not looking at err
FindExistingCarriesOn(s, err) ==
    /\ reqs[s].pc = "findExisting"
    /\ LET r == reqs[s]
       IN IF RowsOf(r.user, r.eventId) # {} /\ ~err
          THEN reqs' = [reqs EXCEPT
                   ![s].existingRSVP = (CHOOSE q \in RowsOf(r.user, r.eventId) :
                       \A x \in RowsOf(r.user, r.eventId) : q.id <= x.id).id,
                   ![s].pc = "updateRSVP"]
          ELSE Goto(s, "insertRSVP")
    /\ UNCHANGED <<events, rsvps, nextRsvpId, now, nreq, scen, nextEventId, authVars>>

\* upsertRSVP: SELECT id FROM rsvps WHERE user_id = ? AND event_id = ?
FindExisting(s, err) ==
    /\ reqs[s].pc = "findExisting"
    /\ LET r == reqs[s]
       IN IF err THEN Respond(s, DbError)
          ELSE IF RowsOf(r.user, r.eventId) # {}
          THEN reqs' = [reqs EXCEPT
                   ![s].existingRSVP = (CHOOSE q \in RowsOf(r.user, r.eventId) :
                       \A x \in RowsOf(r.user, r.eventId) : q.id <= x.id).id,
                   ![s].pc = "updateRSVP"]
          ELSE Goto(s, "insertRSVP")
    /\ UNCHANGED <<events, rsvps, nextRsvpId, now, nreq, scen, nextEventId, authVars>>

UpdateRSVP(s, err) ==
    /\ reqs[s].pc = "updateRSVP"
    /\ LET r == reqs[s]
       IN IF err
          THEN /\ Respond(s, Response(500, "Failed to update RSVP", NoRow))
               /\ rsvps' = rsvps
          ELSE /\ rsvps' = {IF q \in RowsOf(r.user, r.eventId)
                            THEN UpdatedRow(q, r.status, r.notes) ELSE q
                            : q \in rsvps}
               /\ Goto(s, "getRSVPDetails")
    /\ UNCHANGED <<events, nextRsvpId, now, nreq, scen, nextEventId, authVars>>

InsertRSVP(s, err) ==
    /\ reqs[s].pc = "insertRSVP"
    /\ LET r == reqs[s]
       IN IF err \/ InsertViolatesConstraint(r.user, r.eventId)
          THEN /\ Respond(s, Response(500, "Failed to create RSVP", NoRow))
               /\ UNCHANGED <<rsvps, nextRsvpId>>
          ELSE /\ rsvps' = rsvps \cup
                     {InsertedRow(r.user, r.eventId, r.status, r.notes)}
               /\ nextRsvpId' = nextRsvpId + 1
               /\ Goto(s, "getRSVPDetails")
    /\ UNCHANGED <<events, now, nreq, scen, nextEventId, authVars>>

GetRSVPDetails(s, err) ==
    /\ reqs[s].pc = "getRSVPDetails"
    /\ LET r == reqs[s]
       IN IF err
          THEN Respond(s, Response(500, "RSVP saved but fetch failed", NoRow))
          ELSE Respond(s, Response(200, "RSVP saved successfully",
                                   RsvpDetails(r.user, r.eventId)))
    /\ UNCHANGED <<events, rsvps, nextRsvpId, now, nreq, scen, nextEventId, authVars>>

\* ---- DELETE /rsvps/:eventId
BeginDeleteRSVP(s, session, eventId) ==
    /\ FreeSlot(s)
    /\ LET r == [Idle EXCEPT !.op = "DELETE /rsvps", !.at = now,
                             !.user = session,
                             !.eventId = eventId]
       IN reqs' = [reqs EXCEPT ![s] =
            IF AuthMiddleware(SessionOf(session)) # NoRow
            THEN [r EXCEPT !.pc = "done", !.resp = AuthMiddleware(SessionOf(session))]
            ELSE [r EXCEPT !.pc = "deleteRSVP"]]
    /\ UNCHANGED <<events, rsvps, nextRsvpId, now, scen, nextEventId, authVars>>

\* as DeleteRSVPResponse, this.changes not looked at
DeleteRSVPAlwaysSucceeds(changes) ==
    Response(200, "RSVP deleted successfully", NoRow)

\* this.changes === 0 -> 404, otherwise the success message
DeleteRSVPResponse(changes) ==
    IF changes = 0
    THEN Response(404, "RSVP not found", NoRow)
    ELSE Response(200, "RSVP deleted successfully", NoRow)

\* DELETE FROM rsvps WHERE user_id = ? AND event_id = ?, and its callback
DeleteRSVP(s, err) ==
    /\ reqs[s].pc = "deleteRSVP"
    /\ LET r == reqs[s]
       IN IF err
          THEN /\ Respond(s, Response(500, "Failed to delete RSVP", NoRow))
               /\ rsvps' = rsvps
          ELSE /\ rsvps' = rsvps \ RowsOf(r.user, r.eventId)
               /\ Respond(s, DeleteRSVPResponse(
                                 Cardinality(RowsOf(r.user, r.eventId))))
    /\ UNCHANGED <<events, nextRsvpId, now, nreq, scen, nextEventId, authVars>>

\* ---- GET /rsvps/event/:eventId
\* as Bucket, the 'maybe' filter taking every row that is not 'attending'
BucketLoose(list, status) ==
    SelectSeq(list, LAMBDA r : \/ r.status = status
                               \/ (status = "maybe" /\ r.status # "attending"))

\* rsvps.filter(r => r.status === status)
Bucket(list, status) == SelectSeq(list, LAMBDA r : r.status = status)

\* SELECT r.status, r.notes, r.rsvp_date, u.username ... FROM rsvps r
\* JOIN users u ON r.user_id = u.id WHERE r.event_id = ?: one row
EventRsvpRow(r) ==
    [status |-> r.status, notes |-> r.notes, rsvp_date |-> r.rsvp_date,
     username |-> (CHOOSE u \in users : u.id = r.user_id).username]

\* ... ORDER BY r.rsvp_date DESC: every order of the joined rows in which no
\* row comes after a row with a smaller rsvp_date
EventRsvps(e) ==
    LET rows == {r \in rsvps : /\ r.event_id = e
                               /\ \E u \in users : u.id = r.user_id}
        n == Cardinality(rows)
    IN {[i \in 1..n |-> EventRsvpRow(f[i])] :
          f \in {g \in [1..n -> rows] :
                   /\ \A i, j \in 1..n : i # j => g[i] # g[j]
                   /\ \A i, j \in 1..n :
                         i < j => g[i].rsvp_date >= g[j].rsvp_date}}

\* the body of the answer: the list, its buckets and the two counts
EventRsvpsResponse(list) ==
    [code |-> 200, text |-> NoName, rsvps |-> list,
     grouped |-> [attending |-> Bucket(list, "attending"),
                  maybe |-> Bucket(list, "maybe"),
                  not_attending |-> Bucket(list, "not_attending")],
     total |-> Len(list),
     attending_count |-> Len(Bucket(list, "attending"))]

\* router.get('/event/:eventId'): one statement and its callback
GetEventRsvps(s, eventId, err) ==
    /\ FreeSlot(s)
    /\ \E list \in EventRsvps(eventId) :
          reqs' = [reqs EXCEPT ![s] =
             [Idle EXCEPT !.op = "GET /rsvps/event", !.at = now,
                          !.pc = "done", !.eventId = eventId,
                          !.resp = IF err THEN DbError
                                   ELSE EventRsvpsResponse(list)]]
    /\ UNCHANGED <<events, rsvps, nextRsvpId, now, scen, nextEventId, authVars>>

\* ---- DELETE /events/:id
BeginDeleteEvent(s, session, eventId) ==
    /\ FreeSlot(s)
    /\ LET r == [Idle EXCEPT !.op = "DELETE /events", !.at = now,
                             !.user = session,
                             !.eventId = eventId]
       IN reqs' = [reqs EXCEPT ![s] =
            IF AuthMiddleware(SessionOf(session)) # NoRow
            THEN [r EXCEPT !.pc = "done", !.resp = AuthMiddleware(SessionOf(session))]
            ELSE [r EXCEPT !.pc = "deleteEventCheck"]]
    /\ UNCHANGED <<events, rsvps, nextRsvpId, now, scen, nextEventId, authVars>>

\* as AccessDenied, nobody refused
AccessDeniedNever(created_by, user) == FALSE

\* event.created_by !== userId && userRole !== 'admin'
AccessDenied(created_by, user) == created_by # user /\ Role(user) # "admin"

\* SELECT created_by FROM events WHERE id = ?, and its callback
DeleteEventCheck(s, err) ==
    /\ reqs[s].pc = "deleteEventCheck"
    /\ LET r == reqs[s]
           event == IF r.eventId \in EventIds THEN events[r.eventId] ELSE NoRow
       IN IF err THEN Respond(s, DbError)
          ELSE IF event = NoRow
          THEN Respond(s, Response(404, "Event not found", NoRow))
          ELSE IF AccessDenied(event.created_by, r.user)
          THEN Respond(s, Response(403, "Access denied. You can only delete your own events.", NoRow))
          ELSE Goto(s, "deleteEvent")
    /\ UNCHANGED <<events, rsvps, nextRsvpId, now, nreq, scen, nextEventId, authVars>>

\* the rsvps rows that DELETE FROM events WHERE id = ? leaves behind:
\* ON DELETE CASCADE acts only when foreign keys are enforced
RsvpsAfterEventDelete(id) ==
    IF ForeignKeys THEN {r \in rsvps : r.event_id # id} ELSE rsvps

\* DELETE FROM events WHERE id = ?, and its callback
DeleteEvent(s, err) ==
    /\ reqs[s].pc = "deleteEvent"
    /\ LET r == reqs[s]
       IN IF err
          THEN /\ Respond(s, Response(500, "Failed to delete event", NoRow))
               /\ UNCHANGED <<events, rsvps>>
          ELSE /\ events' = [e \in EventIds |->
                               IF e = r.eventId THEN NoRow ELSE events[e]]
               /\ rsvps' = RsvpsAfterEventDelete(r.eventId)
               /\ Respond(s, Response(200, "Event deleted successfully", NoRow))
    /\ UNCHANGED <<nextRsvpId, now, nreq, scen, nextEventId, authVars>>

\* ---- PUT /events/:id
\* validateEvent, of which the model keeps eventDate (in the future when the
\* request arrives) and maxAttendees (optional, isInt({ min: 1 })); title,
\* description and location are not modelled
ValidateEvent(eventDate, maxAttendees) ==
    /\ eventDate > now
    /\ (maxAttendees = Null \/ maxAttendees >= 1)

\* maxAttendees || null
StoredCap(maxAttendees) ==
    IF maxAttendees = Null \/ maxAttendees = 0 THEN Null ELSE maxAttendees

\* router.put('/:id', authMiddleware, validateEvent, ...) up to the pre-read
BeginPutEvent(s, session, eventId, eventDate, maxAttendees) ==
    /\ FreeSlot(s)
    /\ LET r == [Idle EXCEPT !.op = "PUT /events", !.at = now,
                             !.user = session, !.eventId = eventId,
                             !.eventDate = eventDate,
                             !.maxAttendees = maxAttendees]
       IN reqs' = [reqs EXCEPT ![s] =
            IF AuthMiddleware(SessionOf(session)) # NoRow
            THEN [r EXCEPT !.pc = "done",
                           !.resp = AuthMiddleware(SessionOf(session))]
            ELSE IF ~ValidateEvent(eventDate, maxAttendees)
            THEN [r EXCEPT !.pc = "done",
                           !.resp = Response(400, "Validation failed", NoRow)]
            ELSE [r EXCEPT !.pc = "putEventCheck"]]
    /\ UNCHANGED <<events, rsvps, nextRsvpId, now, scen, nextEventId, authVars>>

\* SELECT created_by FROM events WHERE id = ?, and its callback
PutEventCheck(s, err) ==
    /\ reqs[s].pc = "putEventCheck"
    /\ LET r == reqs[s]
           event == IF r.eventId \in EventIds THEN events[r.eventId] ELSE NoRow
       IN IF err THEN Respond(s, DbError)
          ELSE IF event = NoRow
          THEN Respond(s, Response(404, "Event not found", NoRow))
          ELSE IF AccessDenied(event.created_by, r.user)
          THEN Respond(s, Response(403, "Access denied. You can only edit your own events.", NoRow))
          ELSE Goto(s, "updateEvent")
    /\ UNCHANGED <<events, rsvps, nextRsvpId, now, nreq, scen, nextEventId, authVars>>

\* as UpdatedEvent, the SET clause with status = 'active' added
UpdatedEventReopens(row, eventDate, maxAttendees) ==
    [row EXCEPT !.event_date = eventDate,
                !.max_attendees = IF maxAttendees = Null \/ maxAttendees = 0
                                  THEN Null ELSE maxAttendees,
                !.status = "active"]

\* UPDATE events SET title = ?, description = ?, event_date = ?,
\*   location = ?, max_attendees = ?, updated_at = CURRENT_TIMESTAMP
\*   WHERE id = ?
UpdatedEvent(row, eventDate, maxAttendees) ==
    [row EXCEPT !.event_date = eventDate,
                !.max_attendees = StoredCap(maxAttendees)]

\* the UPDATE and its callback
UpdateEvent(s, err) ==
    /\ reqs[s].pc = "updateEvent"
    /\ LET r == reqs[s]
       IN IF err
          THEN /\ Respond(s, Response(500, "Failed to update event", NoRow))
               /\ events' = events
          ELSE /\ events' = [e \in EventIds |->
                               IF e = r.eventId /\ events[e] # NoRow
                               THEN UpdatedEvent(events[e], r.eventDate,
                                                 r.maxAttendees)
                               ELSE events[e]]
               /\ Goto(s, "getUpdatedEvent")
    /\ UNCHANGED <<rsvps, nextRsvpId, now, nreq, scen, nextEventId, authVars>>

\* SELECT e.*, ... FROM events e JOIN users u ... WHERE e.id = ?, and its
\* callback
GetUpdatedEvent(s, err) ==
    /\ reqs[s].pc = "getUpdatedEvent"
    /\ LET r == reqs[s]
           updatedEvent ==
               IF r.eventId \in EventIds THEN events[r.eventId] ELSE NoRow
       IN IF err
          THEN Respond(s, Response(500, "Event updated but fetch failed", NoRow))
          ELSE Respond(s, Response(200, "Event updated successfully",
                                   updatedEvent))
    /\ UNCHANGED <<events, rsvps, nextRsvpId, now, nreq, scen, nextEventId, authVars>>

\* ---- POST /events
\* router.post('/', authMiddleware, validateEvent, ...) up to the INSERT; no
\* POST /events is admitted once events.id could leave EventIds
BeginPostEvent(s, session, eventDate, maxAttendees) ==
    /\ FreeSlot(s)
    /\ nextEventId + Cardinality({t \in Slots : /\ InFlight(t)
                                                /\ reqs[t].op = "POST /events"})
          \in EventIds
    /\ LET r == [Idle EXCEPT !.op = "POST /events", !.at = now,
                             !.user = session, !.eventDate = eventDate,
                             !.maxAttendees = maxAttendees]
       IN reqs' = [reqs EXCEPT ![s] =
            IF AuthMiddleware(SessionOf(session)) # NoRow
            THEN [r EXCEPT !.pc = "done",
                           !.resp = AuthMiddleware(SessionOf(session))]
            ELSE IF ~ValidateEvent(eventDate, maxAttendees)
            THEN [r EXCEPT !.pc = "done",
                           !.resp = Response(400, "Validation failed", NoRow)]
            ELSE [r EXCEPT !.pc = "insertEvent"]]
    /\ UNCHANGED <<events, rsvps, nextRsvpId, now, scen, nextEventId, authVars>>

\* INSERT INTO events (title, description, event_date, location,
\*   max_attendees, created_by): status takes the column's DEFAULT 'active'
InsertedEvent(userId, eventDate, maxAttendees) ==
    [status |-> "active", max_attendees |-> StoredCap(maxAttendees),
     event_date |-> eventDate, created_by |-> userId]

\* the INSERT and its callback, which keeps this.lastID
InsertEvent(s, err) ==
    /\ reqs[s].pc = "insertEvent"
    /\ LET r == reqs[s]
       IN IF err
          THEN /\ Respond(s, Response(500, "Failed to create event", NoRow))
               /\ UNCHANGED <<events, nextEventId>>
          ELSE /\ events' = [events EXCEPT ![nextEventId] =
                     InsertedEvent(r.user, r.eventDate, r.maxAttendees)]
               /\ nextEventId' = nextEventId + 1
               /\ reqs' = [reqs EXCEPT ![s].eventId = nextEventId,
                                       ![s].pc = "getCreatedEvent"]
    /\ UNCHANGED <<rsvps, nextRsvpId, now, nreq, scen, authVars>>

\* SELECT e.*, ... FROM events e JOIN users u ... WHERE e.id = ?, and its
\* callback
GetCreatedEvent(s, err) ==
    /\ reqs[s].pc = "getCreatedEvent"
    /\ IF err
       THEN Respond(s, Response(500, "Event created but fetch failed", NoRow))
       ELSE Respond(s, Response(201, "Event created successfully",
                                events[reqs[s].eventId]))
    /\ UNCHANGED <<events, rsvps, nextRsvpId, now, nreq, scen, nextEventId, authVars>>

\* ---- GET /events
\* An event_date as GET /events sees it: the ISO 8601 text the client sent,
\* stored as it came.  local is the date and time written in the text, west
\* the offset written after it, in the same unit: 0 is 'Z', 2 is '-02:00'.
DateTexts == [local : {1, 2}, west : {0, 2}]

\* new Date(value): the instant the text denotes
Instant(d) == d.local + d.west

\* comparison of two such texts as SQLite compares TEXT, byte by byte: the
\* date and time first, then the offset, where '-' sorts before 'Z'
TextLess(d1, d2) ==
    \/ d1.local < d2.local
    \/ (d1.local = d2.local /\ d1.west > d2.west)

\* LIKE '%term%': a substring match that ignores the case of ASCII letters;
\* NULL LIKE ... is not true
Lower(text) ==
    [i \in 1..Len(text) |->
        IF text[i] = "A" THEN "a" ELSE IF text[i] = "C" THEN "c" ELSE text[i]]
Like(text, term) ==
    /\ text # NoText
    /\ \E i \in 0..(Len(text) - Len(term)) :
          Lower(SubSeq(text, i + 1, i + Len(term))) = Lower(term)

\* WHERE e.status = 'active' [AND (title LIKE ? OR description LIKE ? OR
\* location LIKE ?)] [AND e.event_date > datetime('now')], where
\* datetime('now') is 'YYYY-MM-DD HH:MM:SS' and a text with the same date
\* sorts after it, 'T' being above ' '
Listed(e, search, upcoming) ==
    /\ events[e] # NoRow
    /\ events[e].status = "active"
    /\ TruthyText(search) =>
          \/ Like(events[e].title, search)
          \/ Like(events[e].description, search)
          \/ Like(events[e].location, search)
    /\ upcoming = "true" => events[e].event_date.local >= now

\* LEFT JOIN users u ON e.created_by = u.id: u.username, or NULL
CreatorName(created_by) ==
    IF \E u \in users : u.id = created_by
    THEN (CHOOSE u \in users : u.id = created_by).username
    ELSE NoText

\* SELECT e.*, u.username as creator_name, COUNT(r.id) as rsvp_count ...
\* LEFT JOIN rsvps r ON e.id = r.event_id AND r.status = 'attending'
\* GROUP BY e.id
ListedRow(e) ==
    [id |-> e, status |-> events[e].status, title |-> events[e].title,
     event_date |-> events[e].event_date,
     creator_name |-> CreatorName(events[e].created_by),
     rsvp_count |-> AttendingCount(e)]

\* ORDER BY e.event_date ASC: every order of the selected rows in which no
\* row comes after a row with a greater event_date text (rows with equal
\* texts come in any order)
ListEvents(search, upcoming) ==
    LET ids == {e \in DOMAIN events : Listed(e, search, upcoming)}
        n == Cardinality(ids)
    IN {[i \in 1..n |-> ListedRow(f[i])] :
          f \in {g \in [1..n -> ids] :
                   /\ \A i, j \in 1..n : i # j => g[i] # g[j]
                   /\ \A i, j \in 1..n :
                         i < j => ~TextLess(events[g[j]].event_date,
                                            events[g[i]].event_date)}}

\* router.get('/') of the events router: one statement and its callback
GetEvents(s, search, upcoming, err) ==
    /\ FreeSlot(s)
    /\ \E list \in ListEvents(search, upcoming) :
          reqs' = [reqs EXCEPT ![s] =
             [Idle EXCEPT !.op = "GET /events", !.at = now, !.pc = "done",
                          !.notes = search, !.status = upcoming,
                          !.resp = IF err
                                   THEN [code |-> 500, text |-> "Database error",
                                         events |-> <<>>]
                                   ELSE [code |-> 200, text |-> NoName,
                                         events |-> list]]]
    /\ UNCHANGED <<events, rsvps, nextRsvpId, now, nreq, scen, nextEventId, authVars>>

\* ---- the capacity scenario of the specification's testable properties:
\* on event 1 (capacity 1, no RSVPs) user 1 attends, user 2 attends, user 1
\* switches to maybe, user 2 attends again.  scen records the response and
\* the attending count of each of these requests while the requests served
\* are exactly these, in this order, and is ScenOff otherwise.
ScenarioRequests ==
    <<[user |-> 1, status |-> "attending"], [user |-> 2, status |-> "attending"],
      [user |-> 1, status |-> "maybe"], [user |-> 2, status |-> "attending"]>>

ScenOff == <<[text |-> "off", attending |-> 0]>>

ScenNext(r) ==
    IF /\ scen # ScenOff
       /\ Len(scen) < Len(ScenarioRequests)
       /\ r.op = "POST /rsvps"
       /\ r.eventId = 1
       /\ r.user = ScenarioRequests[Len(scen) + 1].user
       /\ r.status = ScenarioRequests[Len(scen) + 1].status
       /\ ValidateRSVP(r.eventId, r.status, r.notes)
    THEN Append(scen, [text |-> r.resp.text, attending |-> AttendingCount(1)])
    ELSE ScenOff

\* the response has been sent and the request is over
Finish(s) ==
    /\ reqs[s].pc = "done"
    /\ reqs' = [reqs EXCEPT ![s] = Idle]
    /\ scen' = ScenNext(reqs[s])
    /\ UNCHANGED <<events, rsvps, nextRsvpId, now, nreq, nextEventId, authVars>>

\* time passes
Tick ==
    /\ now + 1 \in Times
    /\ now' = now + 1
    /\ UNCHANGED <<events, rsvps, nextRsvpId, reqs, nreq, scen, nextEventId, authVars>>

\* ---- /auth: register, login, logout
AuthResponse(code, text, user) == [code |-> code, text |-> text, user |-> user]

AuthGoto(c, pc) == areqs' = [areqs EXCEPT ![c].pc = pc]
AuthRespond(c, resp) ==
    areqs' = [areqs EXCEPT ![c].pc = "done", ![c].resp = resp]

\* registration may take users.id up to MaxUserId
MaxUserId == MaxUsers + 1

\* the characters of [a-zA-Z0-9_] that the texts of the model are made of
WordChars == {"a", "b", "d", "i", "m", "n", "o", "_", "1", "2", "3"}

\* /^[a-zA-Z0-9_]+$/
IsWord(x) == Len(x) >= 1 /\ \A i \in 1..Len(x) : x[i] \in WordChars

\* isEmail(): something, an @, something
IsEmail(x) == \E i \in 2..(Len(x) - 1) : x[i] = "@"

\* validateRegistration (firstName and lastName are not modelled)
ValidateRegistration(username, email, password) ==
    /\ Len(username) >= 3 /\ IsWord(username)
    /\ IsEmail(email)
    /\ Len(password) >= 6

\* validateLogin
ValidateLogin(username, password) == Len(username) >= 1 /\ Len(password) >= 1

\* SELECT id FROM users WHERE username = ? OR email = ?
UsersNamed(username, email) ==
    {u \in users : u.username = username \/ u.email = email}

\* db.get: the first row (lowest rowid) or none
FirstUser(rows) ==
    IF rows = {} THEN NoRow
    ELSE CHOOSE u \in rows : \A v \in rows : u.id <= v.id

\* as UsersInsertViolatesConstraint, the table without its UNIQUE columns
UsersInsertUnconstrained(username, email) == FALSE

\* username VARCHAR(50) UNIQUE NOT NULL, email VARCHAR(100) UNIQUE NOT NULL
UsersInsertViolatesConstraint(username, email) ==
    \E u \in users : u.username = username \/ u.email = email

\* INSERT INTO users (username, email, password_hash, first_name, last_name):
\* role takes its DEFAULT 'user'
InsertedUser(username, email, password) ==
    [id |-> nextUserId, username |-> username, email |-> email,
     password_hash |-> Hash(password), role |-> "user"]

\* router.post('/register', validateRegistration, ...) up to the pre-read
BeginRegister(c, username, email, password) ==
    /\ areqs[c].pc = "idle"
    /\ nextUserId <= MaxUserId
    /\ LET r == [AuthIdle EXCEPT !.op = "POST /auth/register",
                                 !.username = username, !.email = email,
                                 !.password = password]
       IN areqs' = [areqs EXCEPT ![c] =
            IF ~ValidateRegistration(username, email, password)
            THEN [r EXCEPT !.pc = "done",
                           !.resp = AuthResponse(400, "Validation failed", NoRow)]
            ELSE [r EXCEPT !.pc = "registerCheck"]]
    /\ UNCHANGED <<rsvpVars, users, nextUserId, sessions>>

\* the duplicate pre-read and its callback
RegisterCheck(c, err) ==
    /\ areqs[c].pc = "registerCheck"
    /\ LET r == areqs[c]
       IN IF err THEN AuthRespond(c, AuthResponse(500, "Database error", NoRow))
          ELSE IF FirstUser(UsersNamed(r.username, r.email)) # NoRow
          THEN AuthRespond(c, AuthResponse(409, "Username or email already exists", NoRow))
          ELSE AuthGoto(c, "registerInsert")
    /\ UNCHANGED <<rsvpVars, users, nextUserId, sessions>>

\* the INSERT and its callback; an insert that would take users.id past
\* MaxUserId is not modelled
RegisterInsert(c, err) ==
    /\ areqs[c].pc = "registerInsert"
    /\ LET r == areqs[c]
       IN IF err \/ UsersInsertViolatesConstraint(r.username, r.email)
          THEN /\ AuthRespond(c, AuthResponse(500, "Failed to create user", NoRow))
               /\ UNCHANGED <<users, nextUserId>>
          ELSE /\ nextUserId <= MaxUserId
               /\ users' = users \cup {InsertedUser(r.username, r.email, r.password)}
               /\ nextUserId' = nextUserId + 1
               /\ areqs' = [areqs EXCEPT ![c].pc = "registerFetch",
                                         ![c].lastID = nextUserId]
    /\ UNCHANGED <<rsvpVars, sessions>>

\* SELECT ... FROM users WHERE id = this.lastID, and its callback: the
\* session is set and the user returned
RegisterFetch(c, err) ==
    /\ areqs[c].pc = "registerFetch"
    /\ LET user == FirstUser({u \in users : u.id = areqs[c].lastID})
       IN IF err
          THEN /\ AuthRespond(c, AuthResponse(500, "User created but fetch failed", NoRow))
               /\ sessions' = sessions
          ELSE /\ sessions' = [sessions EXCEPT ![c] = [user |-> SessionUser(user)]]
               /\ AuthRespond(c, AuthResponse(201, "User registered successfully",
                                              SessionUser(user)))
    /\ UNCHANGED <<rsvpVars, users, nextUserId>>

\* router.post('/login', validateLogin, ...) up to the lookup
BeginLogin(c, username, password) ==
    /\ areqs[c].pc = "idle"
    /\ LET r == [AuthIdle EXCEPT !.op = "POST /auth/login",
                                 !.username = username, !.password = password]
       IN areqs' = [areqs EXCEPT ![c] =
            IF ~ValidateLogin(username, password)
            THEN [r EXCEPT !.pc = "done",
                           !.resp = AuthResponse(400, "Validation failed", NoRow)]
            ELSE [r EXCEPT !.pc = "loginCheck"]]
    /\ UNCHANGED <<rsvpVars, users, nextUserId, sessions>>

\* as LoginResponse, an unknown user told apart
LoginResponseTellsUnknown(user, password) ==
    IF user = NoRow
    THEN AuthResponse(404, "User not found", NoRow)
    ELSE IF ~Compare(password, user.password_hash)
    THEN AuthResponse(401, "Invalid username or password", NoRow)
    ELSE AuthResponse(200, "Login successful", SessionUser(user))

\* the response of the lookup's callback: !user, !passwordMatch, success
LoginResponse(user, password) ==
    IF user = NoRow
    THEN AuthResponse(401, "Invalid username or password", NoRow)
    ELSE IF ~Compare(password, user.password_hash)
    THEN AuthResponse(401, "Invalid username or password", NoRow)
    ELSE AuthResponse(200, "Login successful", SessionUser(user))

\* as LoginSession, the session set before the password is compared
LoginSessionBeforeCompare(session, user, password) ==
    IF user # NoRow
    THEN [user |-> SessionUser(user)]
    ELSE session

\* req.session after the lookup's callback: set on success only
LoginSession(session, user, password) ==
    IF user # NoRow /\ Compare(password, user.password_hash)
    THEN [user |-> SessionUser(user)]
    ELSE session

\* SELECT * FROM users WHERE username = ? OR email = ? (both the login
\* name), and its callback with the password comparison
LoginCheck(c, err) ==
    /\ areqs[c].pc = "loginCheck"
    /\ LET r == areqs[c]
           user == FirstUser(UsersNamed(r.username, r.username))
       IN IF err
          THEN /\ AuthRespond(c, AuthResponse(500, "Database error", NoRow))
               /\ sessions' = sessions
          ELSE /\ AuthRespond(c, LoginResponse(user, r.password))
               /\ sessions' = [sessions EXCEPT ![c] =
                                   LoginSession(sessions[c], user, r.password)]
    /\ UNCHANGED <<rsvpVars, users, nextUserId>>

\* router.post('/logout'): req.session.destroy and its callback
Logout(c, err) ==
    /\ areqs[c].pc = "idle"
    /\ LET r == [AuthIdle EXCEPT !.op = "POST /auth/logout"]
       IN IF err
          THEN /\ areqs' = [areqs EXCEPT ![c] = [r EXCEPT !.pc = "done",
                       !.resp = AuthResponse(500, "Logout failed", NoRow)]]
               /\ sessions' = sessions
          ELSE /\ areqs' = [areqs EXCEPT ![c] = [r EXCEPT !.pc = "done",
                       !.resp = AuthResponse(200, "Logout successful", NoRow)]]
               /\ sessions' = [sessions EXCEPT ![c] = Anonymous]
    /\ UNCHANGED <<rsvpVars, users, nextUserId>>

\* a request to a route behind a gate: what the gate does with it
GateKinds == {"auth", "admin", "optional"}
Gate(kind, session) ==
    IF kind = "auth" THEN AuthGate(session)
    ELSE IF kind = "admin" THEN AdminGate(session)
    ELSE OptionalGate(session)

GatedRequest(c, kind) ==
    /\ areqs[c].pc = "idle"
    /\ areqs' = [areqs EXCEPT ![c] =
                    [AuthIdle EXCEPT !.op = kind, !.pc = "done",
                                     !.resp = Gate(kind, sessions[c])]]
    /\ UNCHANGED <<rsvpVars, users, nextUserId, sessions>>

\* the response has been sent
AuthFinish(c) ==
    /\ areqs[c].pc = "done"
    /\ areqs' = [areqs EXCEPT ![c] = AuthIdle]
    /\ UNCHANGED <<rsvpVars, users, nextUserId, sessions>>

\* ---- initial states: any events, no RSVP yet
EventRows ==
    [status : EventStatuses, max_attendees : {Null} \cup (1..MaxCap),
     event_date : EventDates, created_by : Users]

Init ==
    /\ events \in [EventIds -> {NoRow} \cup EventRows]
    /\ rsvps = {}
    /\ nextRsvpId = 1
    /\ nextEventId = Cardinality(EventIds) + 1
    /\ now = 1
    /\ reqs = [s \in Slots |-> Idle]
    /\ nreq = 0
    /\ scen = ScenOff
    /\ users = SeedUsers
    /\ nextUserId = MaxUsers + 1
    /\ sessions = [c \in Browsers |-> Anonymous]
    /\ areqs = [c \in Browsers |-> AuthIdle]

\* the initial states of the specifications that serve RSVP requests only:
\* routes/rsvps.js selects of an event its id, max_attendees and event_date
\* and never created_by, so one creator stands for all of them
CreatedBySeedAdmin ==
    \A e \in EventIds :
        IF events[e] = NoRow THEN TRUE ELSE events[e].created_by = 1
InitRsvp == Init /\ CreatedBySeedAdmin

\* the same initial states, the scenario being followed where event 1 is as
\* the scenario wants it: active, capacity 1, no RSVPs
InitScenario ==
    /\ events \in [EventIds -> {NoRow} \cup EventRows]
    /\ CreatedBySeedAdmin
    /\ rsvps = {}
    /\ nextRsvpId = 1
    /\ nextEventId = Cardinality(EventIds) + 1
    /\ now = 1
    /\ reqs = [s \in Slots |-> Idle]
    /\ nreq = 0
    /\ scen = IF /\ events[1] # NoRow
                 /\ events[1].status = "active"
                 /\ events[1].max_attendees = 1
              THEN <<>> ELSE ScenOff
    /\ users = SeedUsers
    /\ nextUserId = MaxUsers + 1
    /\ sessions = [c \in Browsers |-> Anonymous]
    /\ areqs = [c \in Browsers |-> AuthIdle]

\* RSVP requests of a logged-in user that pass validation, naming an event
\* id of ids and carrying a note of texts
RsvpBegin(ids, texts) ==
    \E s \in Slots, session \in Users, eventId \in ids :
        \/ \E status \in RsvpStatuses, notes \in texts :
               BeginPostRSVP(s, session, eventId, status, notes)
        \/ BeginDeleteRSVP(s, session, eventId)

RsvpStep ==
    \E s \in Slots :
        \/ GetEvent(s, FALSE)
        \/ CountAttending(s, FALSE)
        \/ FindExisting(s, FALSE)
        \/ UpdateRSVP(s, FALSE)
        \/ InsertRSVP(s, FALSE)
        \/ GetRSVPDetails(s, FALSE)
        \/ DeleteRSVP(s, FALSE)

\* bodies of PUT /events/:id: dates that are or are not in the future,
\* capacities absent, positive and 0
EventBodies ==
    {[eventDate |-> 3, maxAttendees |-> Null],
     [eventDate |-> 3, maxAttendees |-> 1],
     [eventDate |-> 2, maxAttendees |-> 1],
     [eventDate |-> 1, maxAttendees |-> 1],
     [eventDate |-> 3, maxAttendees |-> 0]}

EventBegin(ids) ==
    \E s \in Slots, session \in Users, eventId \in ids :
        \/ BeginDeleteEvent(s, session, eventId)
        \/ \E b \in EventBodies :
               BeginPutEvent(s, session, eventId, b.eventDate, b.maxAttendees)

EventStep ==
    \E s \in Slots :
        \/ DeleteEventCheck(s, FALSE)
        \/ DeleteEvent(s, FALSE)
        \/ PutEventCheck(s, FALSE)
        \/ UpdateEvent(s, FALSE)
        \/ GetUpdatedEvent(s, FALSE)

Retire == \E s \in Slots : Finish(s)

\* requests overlap: any request may begin while others are being served, up
\* to MaxRequests requests in all
Admit(Begin) == nreq < MaxRequests /\ nreq' = nreq + 1 /\ Begin

\* one request at a time: a request begins only when none is being served
Alone(Begin) == Quiet /\ nreq' = nreq /\ Begin

\* inputs of the one-at-a-time specifications: an event id that may name no
\* event, every well-formed note
SeqIds == EventIds \cup {2}

\* inputs of the overlapping specifications: the ids of the events table and
\* one note text
RaceIds == EventIds
RaceNotes == {<<"a">>}

\* every request of the model, requests overlapping
Next ==
    \/ Tick
    \/ Admit(RsvpBegin(RaceIds, RaceNotes)) \/ Admit(EventBegin(RaceIds))
    \/ RsvpStep \/ EventStep \/ Retire
Spec == Init /\ [][Next]_vars

\* every request of the model, one request at a time
NextSeq ==
    \/ Tick
    \/ Alone(RsvpBegin(SeqIds, WellFormedNotes)) \/ Alone(EventBegin(SeqIds))
    \/ RsvpStep \/ EventStep \/ Retire
SpecSeq == Init /\ [][NextSeq]_vars

\* the RSVP requests alone, requests overlapping
NextRsvp ==
    Tick \/ Admit(RsvpBegin(RaceIds, RaceNotes)) \/ RsvpStep \/ Retire
SpecRsvp == InitRsvp /\ [][NextRsvp]_vars

\* the RSVP requests alone, one request at a time
NextRsvpSeq ==
    Tick \/ Alone(RsvpBegin(SeqIds, WellFormedNotes)) \/ RsvpStep \/ Retire
SpecRsvpSeq == InitRsvp /\ [][NextRsvpSeq]_vars

\* the same, the capacity scenario being followed
SpecScenario == InitScenario /\ [][NextRsvpSeq]_vars

\* the event requests one at a time, between 'attending' RSVPs without a
\* note, and their withdrawals, that give the events their RSVP rows
AttendBegin ==
    \E s \in Slots, session \in Users :
        \/ BeginPostRSVP(s, session, 1, "attending", NoNotes)
        \/ BeginDeleteRSVP(s, session, 1)

NextEventsSeq ==
    \/ Tick
    \/ Alone(EventBegin(SeqIds)) \/ Alone(AttendBegin)
    \/ RsvpStep \/ EventStep \/ Retire
SpecEventsSeq == Init /\ [][NextEventsSeq]_vars

\* request bodies of POST /rsvps, well-formed and not: an event id below 1,
\* a status outside the list, a note of 501 characters, all three at once
LongNote == [i \in 1..(MaxNoteLen + 1) |-> "x"]
RsvpBodies ==
    [eventId : SeqIds, status : RsvpStatuses, notes : {NoNotes, <<"a">>}]
    \cup {[eventId |-> 0, status |-> "attending", notes |-> NoNotes],
          [eventId |-> 1, status |-> "bogus", notes |-> <<"a">>],
          [eventId |-> 1, status |-> "attending", notes |-> LongNote],
          [eventId |-> 0, status |-> "bogus", notes |-> LongNote]}

RsvpBeginAnyBody ==
    \E s \in Slots, session \in Users :
        \/ \E b \in RsvpBodies :
               BeginPostRSVP(s, session, b.eventId, b.status, b.notes)
        \/ \E eventId \in SeqIds : BeginDeleteRSVP(s, session, eventId)

\* the RSVP requests alone, one request at a time, bodies well-formed or not
NextRsvpAnyBody ==
    Tick \/ Alone(RsvpBeginAnyBody) \/ RsvpStep \/ Retire
SpecRsvpAnyBody == InitRsvp /\ [][NextRsvpAnyBody]_vars

\* the RSVP requests for the events of the table, one at a time, every store
\* statement failing or not
RsvpStepOrFailure ==
    \E s \in Slots, err \in BOOLEAN :
        \/ GetEvent(s, err)
        \/ CountAttending(s, err)
        \/ FindExisting(s, err)
        \/ UpdateRSVP(s, err)
        \/ InsertRSVP(s, err)
        \/ GetRSVPDetails(s, err)
        \/ DeleteRSVP(s, err)
NextRsvpFail ==
    \/ Tick
    \/ Alone(RsvpBegin(RaceIds, RaceNotes))
    \/ RsvpStepOrFailure
    \/ Retire

\* sqlite3 calls the callback of every statement it was given
FairSpecRsvpFail ==
    InitRsvp /\ [][NextRsvpFail]_vars /\ WF_vars(RsvpStepOrFailure)

\* ---- the identity service: the seeded administrator, two anonymous
\* browsers, an empty catalog
InitAuth ==
    /\ events = [e \in EventIds |-> NoRow]
    /\ rsvps = {}
    /\ nextRsvpId = 1
    /\ nextEventId = Cardinality(EventIds) + 1
    /\ now = 1
    /\ reqs = [s \in Slots |-> Idle]
    /\ nreq = 0
    /\ scen = ScenOff
    /\ users = {SeedUser(1)}
    /\ nextUserId = 2
    /\ sessions = [c \in Browsers |-> Anonymous]
    /\ areqs = [c \in Browsers |-> AuthIdle]

\* bodies of POST /auth/register: a new user, the same username with
\* another email, the same email with another username, the
\* administrator's username, a username of two characters
Bob == <<"b", "o", "b">>
BobEmail == <<"b", "@", "e">>
BobPassword == <<"b", "o", "b", "1", "2", "3">>
RegisterBodies ==
    {[username |-> Bob, email |-> BobEmail],
     [username |-> Bob, email |-> <<"o", "@", "e">>],
     [username |-> <<"a", "n", "n">>, email |-> BobEmail],
     [username |-> AdminName, email |-> <<"n", "@", "e">>],
     [username |-> <<"b", "o">>, email |-> BobEmail]}

\* bodies of POST /auth/login: right and wrong passwords of the
\* administrator and of bob (by username and by email), a name nobody has,
\* an empty password
LoginBodies ==
    {[username |-> AdminName, password |-> AdminPassword],
     [username |-> AdminName, password |-> BobPassword],
     [username |-> Bob, password |-> BobPassword],
     [username |-> BobEmail, password |-> BobPassword],
     [username |-> Bob, password |-> AdminPassword],
     [username |-> <<"n", "o", "b", "o", "d", "y">>, password |-> BobPassword],
     [username |-> Bob, password |-> <<>>]}

AuthBegin ==
    \E c \in Browsers :
        \/ \E b \in RegisterBodies :
               BeginRegister(c, b.username, b.email, BobPassword)
        \/ \E b \in LoginBodies : BeginLogin(c, b.username, b.password)
        \/ Logout(c, FALSE)
        \/ GatedRequest(c, "auth")

AuthStep ==
    \E c \in Browsers :
        \/ RegisterCheck(c, FALSE)
        \/ RegisterInsert(c, FALSE)
        \/ RegisterFetch(c, FALSE)
        \/ LoginCheck(c, FALSE)

AuthRetire == \E c \in Browsers : AuthFinish(c)

\* register, login, logout and gated requests of two browsers, overlapping
NextAuth == AuthBegin \/ AuthStep \/ AuthRetire
SpecAuth == InitAuth /\ [][NextAuth]_vars

\* ---- the catalogue's writes: the table empty and the sequence at its
\* start, or holding event 1; POST, PUT and DELETE /events overlapping
InitEvents ==
    /\ events \in [EventIds -> {NoRow} \cup EventRows]
    /\ rsvps = {}
    /\ nextRsvpId = 1
    /\ nextEventId = IF events[1] = NoRow THEN 1 ELSE 2
    /\ now = 1
    /\ reqs = [s \in Slots |-> Idle]
    /\ nreq = 0
    /\ scen = ScenOff
    /\ users = SeedUsers
    /\ nextUserId = MaxUsers + 1
    /\ sessions = [c \in Browsers |-> Anonymous]
    /\ areqs = [c \in Browsers |-> AuthIdle]

NextEvents ==
    \/ Tick
    \/ (nreq' = nreq /\ EventBegin(RaceIds))
    \/ \E s \in Slots, session \in Users, b \in EventBodies :
          nreq' = nreq /\ BeginPostEvent(s, session, b.eventDate, b.maxAttendees)
    \/ EventStep
    \/ \E s \in Slots : InsertEvent(s, FALSE)
    \/ \E s \in Slots : GetCreatedEvent(s, FALSE)
    \/ Retire
SpecEvents == InitEvents /\ [][NextEvents]_vars

\* the RSVP requests for the events of the table and the reading of an
\* event's RSVPs, one request at a time
NextEventRsvps ==
    \/ Tick
    \/ Alone(RsvpBegin(RaceIds, WellFormedNotes))
    \/ Alone(\E s \in Slots, eventId \in SeqIds : GetEventRsvps(s, eventId, FALSE))
    \/ RsvpStep
    \/ Retire
SpecEventRsvps == InitRsvp /\ [][NextEventRsvps]_vars

\* ---- the catalogue alone: two events of any status, date text and title,
\* RSVPs of any user for them, and GET /events with every filter
ListIds == {1, 2}
ListedEventRows ==
    [status : EventStatuses, event_date : DateTexts,
     title : {<<"a">>, <<"b">>}, description : {NoText},
     location : {<<"c">>}, max_attendees : {Null}, created_by : {1}]

\* the rsvps rows that a choice of status per (user, event) stands for
RsvpRowsOf(f) ==
    {[id |-> (u - 1) * 2 + e, user_id |-> u, event_id |-> e,
      status |-> f[<<u, e>>], notes |-> NoNotes, rsvp_date |-> 1] :
        <<u, e>> \in {p \in Users \X ListIds : f[p] # NoName}}

InitList ==
    /\ events \in [ListIds -> {NoRow} \cup ListedEventRows]
    /\ rsvps \in {RsvpRowsOf(f) :
                    f \in [Users \X ListIds -> {NoName, "attending", "maybe"}]}
    /\ nextRsvpId = MaxUsers * 2 + 1
    /\ nextEventId = Cardinality(ListIds) + 1
    /\ now = 1
    /\ reqs = [s \in Slots |-> Idle]
    /\ nreq = 0
    /\ scen = ScenOff
    /\ users = SeedUsers
    /\ nextUserId = MaxUsers + 1
    /\ sessions = [c \in Browsers |-> Anonymous]
    /\ areqs = [c \in Browsers |-> AuthIdle]

NextList ==
    \/ Tick
    \/ \E search \in {NoText, <<"A">>, <<"c">>}, upcoming \in {NoName, "true"} :
          GetEvents(1, search, upcoming, FALSE)
    \/ Finish(1)
SpecList == InitList /\ [][NextList]_vars

\* ---- the gates alone: the session of browser 1 is any req.session, sound
\* or corrupt
SessionUsers ==
    [id : {Null, 0, 1, 2}, username : {NoText, <<>>, AdminName, Bob},
     email : {NoText, AdminEmail}, role : {NoName, "user", "admin"}]
SessionShapes == {NoRow, Anonymous} \cup {[user |-> u] : u \in SessionUsers}

InitGates ==
    /\ events = [e \in EventIds |-> NoRow]
    /\ rsvps = {}
    /\ nextRsvpId = 1
    /\ nextEventId = Cardinality(EventIds) + 1
    /\ now = 1
    /\ reqs = [s \in Slots |-> Idle]
    /\ nreq = 0
    /\ scen = ScenOff
    /\ users = {SeedUser(1)}
    /\ nextUserId = 2
    /\ sessions \in [Browsers -> SessionShapes]
    /\ sessions[2] = Anonymous
    /\ areqs = [c \in Browsers |-> AuthIdle]

NextGates ==
    \/ \E c \in Browsers, kind \in GateKinds : GatedRequest(c, kind)
    \/ AuthRetire
SpecGates == InitGates /\ [][NextGates]_vars


(***************************************************************************)
(* The claims                                                              *)
(***************************************************************************)
Done(s) == reqs[s].pc = "done"
HasCapacity(e) == events[e] # NoRow /\ events[e].max_attendees # Null

\* C1: with requests served one at a time, the number of 'attending' rows
\* of an event that declares a capacity never exceeds that capacity.
C1_CapacityRespected ==
    \A e \in EventIds :
        HasCapacity(e) => AttendingCount(e) <= events[e].max_attendees

\* an event is full and a further 'attending' request has just been refused
C1_Witness ==
    \E s \in Slots :
        /\ Done(s)
        /\ reqs[s].op = "POST /rsvps"
        /\ reqs[s].resp.text = "Event is at full capacity"
        /\ HasCapacity(reqs[s].eventId)
        /\ AttendingCount(reqs[s].eventId) = events[reqs[s].eventId].max_attendees

\* C2: the rsvps table never holds two rows for the same (user_id,
\* event_id), however the statements of overlapping requests interleave.
C2_OneRowPerPair ==
    \A r1 \in rsvps, r2 \in rsvps :
        (r1.user_id = r2.user_id /\ r1.event_id = r2.event_id) => r1 = r2

\* two requests of one user for one event both found no row; one inserted
\* and the other's insert was refused by the constraint
C2_Witness ==
    \E s \in Slots, t \in Slots :
        /\ s # t
        /\ Done(s)
        /\ reqs[s].resp.text = "Failed to create RSVP"
        /\ reqs[t].op = "POST /rsvps"
        /\ reqs[t].pc \in {"getRSVPDetails", "done"}
        /\ reqs[t].user = reqs[s].user
        /\ reqs[t].eventId = reqs[s].eventId
        /\ reqs[t].existingRSVP = Null
        /\ Cardinality(RowsOf(reqs[s].user, reqs[s].eventId)) = 1

ActiveFuture(e) ==
    /\ e \in EventIds
    /\ events[e] # NoRow
    /\ events[e].status = "active"
    /\ events[e].event_date > now

\* the one row of the request's (user, event), as the request asked for it:
\* its status, its note (no note and the empty note are both stored as NULL)
\* and a timestamp taken while the request was served
RowAsRequested(r) ==
    \E row \in rsvps :
        /\ RowsOf(r.user, r.eventId) = {row}
        /\ row.status = r.status
        /\ row.notes = StoredNotes(r.notes)
        /\ r.at <= row.rsvp_date
        /\ row.rsvp_date <= now

\* C3 as stated: after a POST /rsvps to an active future event, repeated or
\* not, exactly one row exists for the (user, event) and it carries the
\* status, note and timestamp of that latest request.
C3_AsStated ==
    \A s \in Slots :
        (Done(s) /\ reqs[s].op = "POST /rsvps" /\ ActiveFuture(reqs[s].eventId))
            => RowAsRequested(reqs[s])

\* C3 amended: after a POST /rsvps at most one row exists for the (user,
\* event); when the request was accepted exactly one exists and it carries
\* the status, note and timestamp of that request.
C3_UpsertIdempotent ==
    \A s \in Slots :
        (Done(s) /\ reqs[s].op = "POST /rsvps") =>
            /\ Cardinality(RowsOf(reqs[s].user, reqs[s].eventId)) <= 1
            /\ reqs[s].resp.code = 200 => RowAsRequested(reqs[s])

\* a repeated request has overwritten the user's row after the clock advanced
C3_Witness ==
    \E s \in Slots :
        /\ Done(s)
        /\ reqs[s].op = "POST /rsvps"
        /\ reqs[s].resp.code = 200
        /\ reqs[s].existingRSVP # Null
        /\ reqs[s].at = 2
        /\ reqs[s].resp.rsvp.id = reqs[s].existingRSVP

\* C4: on an active future event with capacity 1 and no RSVPs, served one
\* after another: user 1 'attending' is saved (1 attending), user 2
\* 'attending' is refused for capacity, user 1 'maybe' is saved and leaves 0
\* attending, user 2 'attending' is then saved.
ScenarioOutcomes ==
    <<[text |-> "RSVP saved successfully", attending |-> 1],
      [text |-> "Event is at full capacity", attending |-> 1],
      [text |-> "RSVP saved successfully", attending |-> 0],
      [text |-> "RSVP saved successfully", attending |-> 1]>>

C4_CapacityScenario ==
    (scen # ScenOff /\ ActiveFuture(1)) =>
        \A i \in 1..Len(scen) : scen[i] = ScenarioOutcomes[i]

\* the four requests of the scenario have been served
C4_Witness ==
    scen # ScenOff /\ Len(scen) = Len(ScenarioRequests) /\ ActiveFuture(1)

\* request s takes the step that leaves pc
Leaves(s, pc) == reqs[s].pc = pc /\ reqs'[s].pc # pc

\* the step writes nothing to the store
StoreUnchanged == UNCHANGED <<events, rsvps, nextRsvpId>>

\* C5: the attending-count read and the insert are separate statements with
\* nothing isolating them: the read decides on the rows stored at that
\* moment alone, and the insert of a request that passed it adds its row
\* whatever the count has become, so two overlapping 'attending' requests
\* for the last free place both insert and the event is oversold.
C5_CheckThenAct ==
    [][\A s \in Slots :
        /\ Leaves(s, "countAttending") =>
              (reqs'[s].pc = "findExisting" <=>
                  AttendingCount(reqs[s].eventId) < reqs[s].event.max_attendees)
        /\ (Leaves(s, "insertRSVP") /\ RowsOf(reqs[s].user, reqs[s].eventId) = {})
              => \E row \in rsvps' \ rsvps :
                    /\ rsvps' = rsvps \cup {row}
                    /\ row.user_id = reqs[s].user
                    /\ row.event_id = reqs[s].eventId
                    /\ row.status = reqs[s].status]_vars

\* two requests that both passed the count read have both inserted: more
\* 'attending' rows than the event's capacity
C5_Witness ==
    \E e \in EventIds, s \in Slots, t \in Slots :
        /\ s # t
        /\ HasCapacity(e)
        /\ AttendingCount(e) > events[e].max_attendees
        /\ \A x \in {s, t} :
              /\ reqs[x].op = "POST /rsvps"
              /\ reqs[x].eventId = e
              /\ reqs[x].status = "attending"
              /\ reqs[x].pc \in {"getRSVPDetails", "done"}
              /\ reqs[x].existingRSVP = Null
              /\ RowsOf(reqs[x].user, e) # {}

\* C6 as stated: once DELETE /events/:id has answered with success, no rsvps
\* row of the deleted event remains in the store.
C6_CascadeOnDelete ==
    \A s \in Slots :
        (/\ Done(s)
         /\ reqs[s].op = "DELETE /events"
         /\ reqs[s].resp.code = 200)
            => \A r \in rsvps : r.event_id # reqs[s].eventId

\* C7: DELETE /rsvps/:eventId by a user without a row for the event answers
\* 404 and leaves the store as it was; it answers success only when it
\* removed the user's row, after which the user has no row for the event (so
\* that the same delete, repeated, is the first case).
C7_DeleteNotFound ==
    [][\A s \in Slots : Leaves(s, "deleteRSVP") =>
        LET mine == RowsOf(reqs[s].user, reqs[s].eventId)
        IN /\ reqs'[s].pc = "done"
           /\ mine = {} => (reqs'[s].resp.code = 404 /\ StoreUnchanged)
           /\ reqs'[s].resp.code = 200 =>
                 /\ mine # {}
                 /\ rsvps' = rsvps \ mine
                 /\ UNCHANGED <<events, nextRsvpId>>
           /\ reqs'[s].resp.code \in {200, 404}
           /\ {r \in rsvps' : r.user_id = reqs[s].user
                              /\ r.event_id = reqs[s].eventId} = {}]_vars

\* a delete has answered 404 after the only row ever created was deleted
C7_Witness ==
    \E s \in Slots :
        /\ Done(s)
        /\ reqs[s].op = "DELETE /rsvps"
        /\ reqs[s].resp.code = 404
        /\ reqs[s].resp.text = "RSVP not found"
        /\ nextRsvpId > 1
        /\ rsvps = {}

\* C8: a POST /rsvps for an active event whose date is not strictly after
\* the current time is answered with the past-event failure at the event
\* lookup and writes nothing, whatever the requested status, the capacity
\* and the attending count.
C8_PastEventFirst ==
    [][\A s \in Slots :
        (/\ Leaves(s, "getEvent")
         /\ reqs[s].eventId \in EventIds
         /\ events[reqs[s].eventId] # NoRow
         /\ events[reqs[s].eventId].status = "active"
         /\ events[reqs[s].eventId].event_date <= now)
            => /\ reqs'[s].pc = "done"
               /\ reqs'[s].resp.code = 400
               /\ reqs'[s].resp.text = "Cannot RSVP to past events"
               /\ StoreUnchanged]_vars

\* an 'attending' request for a full event that has become past is answered
\* with the past-event failure
C8_Witness ==
    \E s \in Slots :
        /\ Done(s)
        /\ reqs[s].op = "POST /rsvps"
        /\ reqs[s].resp.text = "Cannot RSVP to past events"
        /\ reqs[s].status = "attending"
        /\ HasCapacity(reqs[s].eventId)
        /\ AttendingCount(reqs[s].eventId) >= events[reqs[s].eventId].max_attendees
        /\ RowsOf(reqs[s].user, reqs[s].eventId) = {}

\* C9: a POST /rsvps whose event id names no event, or an event that is not
\* 'active', is answered with the not-found/inactive failure at the event
\* lookup, before the date and the capacity are looked at, and writes
\* nothing.
C9_InactiveFirst ==
    [][\A s \in Slots :
        (/\ Leaves(s, "getEvent")
         /\ \/ reqs[s].eventId \notin EventIds
            \/ events[reqs[s].eventId] = NoRow
            \/ events[reqs[s].eventId].status # "active")
            => /\ reqs'[s].pc = "done"
               /\ reqs'[s].resp.code = 404
               /\ reqs'[s].resp.text = "Event not found or inactive"
               /\ StoreUnchanged]_vars

\* an 'attending' request for a cancelled or completed event whose date has
\* passed is answered not-found, not past-event
C9_Witness ==
    \E s \in Slots :
        /\ Done(s)
        /\ reqs[s].op = "POST /rsvps"
        /\ reqs[s].resp.text = "Event not found or inactive"
        /\ reqs[s].status = "attending"
        /\ reqs[s].eventId \in EventIds
        /\ events[reqs[s].eventId] # NoRow
        /\ events[reqs[s].eventId].status # "active"
        /\ events[reqs[s].eventId].event_date <= now
        /\ events[reqs[s].eventId].max_attendees # Null

\* C10: a POST /rsvps is answered with the capacity failure exactly when the
\* status asked for is 'attending', the event declares a capacity and the
\* count of 'attending' rows read has reached it: the count is read only for
\* such requests, and the request is refused exactly when the count read is
\* at or above the capacity.
C10_CapacityFailureExactly ==
    [][\A s \in Slots :
        /\ Leaves(s, "getEvent") =>
              (reqs'[s].pc = "countAttending" <=>
                  /\ reqs'[s].pc # "done"
                  /\ reqs[s].status = "attending"
                  /\ reqs'[s].event.max_attendees # Null)
        /\ Leaves(s, "countAttending") =>
              ((reqs'[s].pc = "done"
                /\ reqs'[s].resp.text = "Event is at full capacity")
               <=> AttendingCount(reqs[s].eventId)
                       >= reqs[s].event.max_attendees)
        /\ (reqs[s].op = "POST /rsvps" /\ reqs[s].pc # "done"
            /\ reqs'[s].pc = "done"
            /\ reqs'[s].resp.text = "Event is at full capacity")
              => /\ reqs[s].pc = "countAttending"
                 /\ reqs[s].status = "attending"
                 /\ reqs[s].event.max_attendees # Null
                 /\ StoreUnchanged]_vars

\* a 'maybe' request has been accepted on an event that is full
C10_Witness ==
    \E s \in Slots :
        /\ Done(s)
        /\ reqs[s].op = "POST /rsvps"
        /\ reqs[s].resp.code = 200
        /\ reqs[s].status = "maybe"
        /\ HasCapacity(reqs[s].eventId)
        /\ AttendingCount(reqs[s].eventId) >= events[reqs[s].eventId].max_attendees

\* the rsvps rows of rows that are not of the pair (u, e)
RowsOfOthers(rows, u, e) ==
    {r \in rows : ~(r.user_id = u /\ r.event_id = e)}

\* C11: a POST /rsvps that succeeds has made exactly one write, an INSERT or
\* an UPDATE of the rsvps row of its own (user, event): every step of the
\* request leaves the events and every rsvps row of another user or event
\* as they were, only the UPDATE and the INSERT step write, each writes the
\* one row of the pair, and a request reaches success through exactly one of
\* the two.
C11_OneWriteOwnRow ==
    [][\A s \in Slots :
        (reqs[s].op = "POST /rsvps" /\ reqs'[s] # reqs[s]) =>
            LET u == reqs[s].user
                e == reqs[s].eventId
            IN /\ events' = events
               /\ RowsOfOthers(rsvps', u, e) = RowsOfOthers(rsvps, u, e)
               /\ IF Leaves(s, "updateRSVP")
                  THEN \E old \in rsvps, new \in rsvps' :
                          /\ rsvps' = (rsvps \ {old}) \cup {new}
                          /\ new.id = old.id
                          /\ new.user_id = u /\ new.event_id = e
                          /\ old.user_id = u /\ old.event_id = e
                          /\ nextRsvpId' = nextRsvpId
                          /\ reqs'[s].pc = "getRSVPDetails"
                  ELSE IF Leaves(s, "insertRSVP")
                  THEN \E new \in rsvps' \ rsvps :
                          /\ rsvps' = rsvps \cup {new}
                          /\ new.user_id = u /\ new.event_id = e
                          /\ reqs'[s].pc = "getRSVPDetails"
                  ELSE /\ rsvps' = rsvps
                       /\ nextRsvpId' = nextRsvpId
                       /\ reqs'[s].pc # "getRSVPDetails"
               /\ (reqs'[s].pc = "done" /\ reqs'[s].resp.code = 200)
                     => reqs[s].pc = "getRSVPDetails"]_vars

\* a request has inserted its user's row while the event holds the row of
\* another user
C11_Witness ==
    \E s \in Slots :
        /\ Done(s)
        /\ reqs[s].op = "POST /rsvps"
        /\ reqs[s].resp.code = 200
        /\ reqs[s].existingRSVP = Null
        /\ reqs[s].resp.rsvp # NoRow
        /\ \E r \in rsvps : r.event_id = reqs[s].eventId /\ r.user_id # reqs[s].user

\* request s is a POST /rsvps that takes the step that ends it
Ends(s) ==
    /\ reqs[s].pc # "done"
    /\ reqs'[s].pc = "done"
    /\ reqs'[s].op = "POST /rsvps"

\* the body of the request (as it is after the step) breaks a validation rule
Malformed(r) ==
    \/ r.eventId < 1
    \/ r.status \notin {"attending", "maybe", "not_attending"}
    \/ (r.notes # NoNotes /\ Len(r.notes) > 500)

\* C12: a POST /rsvps that ends in the validation, the not-found/inactive,
\* the past-event or the capacity failure has written nothing, at that step
\* or before it, and each of the four is reported with its own message: the
\* message tells which of the four conditions ended the request.
C12_FailuresDistinctNoWrite ==
    [][\A s \in Slots :
       /\ (reqs[s].pc = "idle" /\ reqs'[s].op = "POST /rsvps"
           /\ Malformed(reqs'[s])) => Ends(s)
       /\ Ends(s) =>
        LET r == reqs'[s]
            text == r.resp.text
        IN /\ text = "Validation failed" <=>
                 (reqs[s].pc = "idle" /\ Malformed(r))
           /\ text = "Event not found or inactive" <=>
                 /\ reqs[s].pc = "getEvent"
                 /\ \/ r.eventId \notin EventIds
                    \/ events[r.eventId] = NoRow
                    \/ events[r.eventId].status # "active"
           /\ text = "Cannot RSVP to past events" <=>
                 /\ reqs[s].pc = "getEvent"
                 /\ r.eventId \in EventIds
                 /\ events[r.eventId] # NoRow
                 /\ events[r.eventId].status = "active"
                 /\ events[r.eventId].event_date <= now
           /\ text = "Event is at full capacity" <=>
                 /\ reqs[s].pc = "countAttending"
                 /\ AttendingCount(r.eventId) >= r.event.max_attendees
           /\ r.resp.code \in {400, 404} =>
                 /\ StoreUnchanged
                 /\ reqs[s].pc \in {"idle", "getEvent", "countAttending"}
                 /\ text \in {"Validation failed", "Event not found or inactive",
                              "Cannot RSVP to past events",
                              "Event is at full capacity"}
                 /\ r.resp.code = 404 <=> text = "Event not found or inactive"]_vars

\* a request with a note of 501 characters, otherwise acceptable for an
\* active future event, has been refused by validation
C12_Witness ==
    \E s \in Slots :
        /\ Done(s)
        /\ reqs[s].op = "POST /rsvps"
        /\ reqs[s].resp.text = "Validation failed"
        /\ reqs[s].status = "attending"
        /\ ActiveFuture(reqs[s].eventId)
        /\ Len(reqs[s].notes) = 501

AuthDone(c) == areqs[c].pc = "done"

\* C13 as stated: a registration whose username or email is held by a row
\* of users, at the pre-read or, after a concurrent registration, at the
\* insert, is answered 409 and creates no row.
C13_DuplicateIs409 ==
    [][\A c \in Browsers :
        (/\ areqs[c].pc \in {"registerCheck", "registerInsert"}
         /\ areqs'[c].pc # areqs[c].pc
         /\ \E u \in users : \/ u.username = areqs[c].username
                             \/ u.email = areqs[c].email)
            => /\ areqs'[c].pc = "done"
               /\ areqs'[c].resp.code = 409
               /\ users' = users]_vars

\* C14: no two rows of users share a username, and no two share an email,
\* however registrations interleave.
C14_UsersUnique ==
    \A u \in users, v \in users :
        (u.username = v.username \/ u.email = v.email) => u = v

\* two registrations with the same email passed the pre-read; one inserted
\* its row, the other's INSERT was refused
C14_Witness ==
    \E c \in Browsers, d \in Browsers :
        /\ c # d
        /\ AuthDone(c)
        /\ areqs[c].op = "POST /auth/register"
        /\ areqs[c].resp.text = "Failed to create user"
        /\ areqs[d].op = "POST /auth/register"
        /\ areqs[d].pc \in {"registerFetch", "done"}
        /\ areqs[d].lastID # Null
        /\ areqs[d].email = areqs[c].email
        /\ areqs[d].username # areqs[c].username
        /\ Cardinality({u \in users : u.email = areqs[c].email}) = 1

\* the session carries a user with an id and a username
ValidSession(session) ==
    /\ session # NoRow
    /\ session.user # NoRow
    /\ session.user.id \notin {Null, 0}
    /\ session.user.username \notin {NoText, <<>>}

\* browser c has been answered by the gate of the given kind
Gated(c, kind) == AuthDone(c) /\ areqs[c].op = kind

\* C15: the required-authenticated gate calls the handler exactly when the
\* session carries a user with an id and a username, and otherwise answers
\* 401 without calling it; the optional gate attaches the session's user,
\* or null, and always calls the handler.  No gate touches the store.
C15_AuthGate ==
    \A c \in Browsers :
        /\ Gated(c, "auth") =>
              IF ValidSession(sessions[c])
              THEN areqs[c].resp.nexts = 1 /\ areqs[c].resp.responses = <<>>
              ELSE /\ areqs[c].resp.nexts = 0
                   /\ Len(areqs[c].resp.responses) = 1
                   /\ areqs[c].resp.responses[1].code = 401
        /\ Gated(c, "optional") =>
              /\ areqs[c].resp.nexts = 1
              /\ areqs[c].resp.responses = <<>>
              /\ areqs[c].resp.currentUser =
                    IF sessions[c] # NoRow /\ sessions[c].user # NoRow
                    THEN sessions[c].user ELSE NoRow
        /\ (Gated(c, "auth") \/ Gated(c, "optional")) =>
              users = {SeedUser(1)} /\ rsvps = {}

\* a session whose user has a username but no usable id has been refused
C15_Witness ==
    \E c \in Browsers :
        /\ Gated(c, "auth")
        /\ sessions[c] # NoRow
        /\ sessions[c].user # NoRow
        /\ sessions[c].user.id \in {Null, 0}
        /\ sessions[c].user.username = AdminName
        /\ areqs[c].resp.nexts = 0
        /\ areqs[c].resp.responses[1].text = "Invalid session"

\* C16: the required-admin gate does exactly one thing for every session:
\* 401 when the session is not valid, 403 when it is valid and the role is
\* not 'admin', one call of the handler when it is valid and the role is
\* 'admin'; it never both answers and calls the handler.
C16_AdminGate ==
    \A c \in Browsers : Gated(c, "admin") =>
        LET o == areqs[c].resp
        IN /\ Len(o.responses) + o.nexts = 1
           /\ ~ValidSession(sessions[c]) =>
                 (o.nexts = 0 /\ o.responses[1].code = 401)
           /\ (ValidSession(sessions[c]) /\ sessions[c].user.role # "admin") =>
                 (o.nexts = 0 /\ o.responses[1].code = 403)
           /\ (ValidSession(sessions[c]) /\ sessions[c].user.role = "admin") =>
                 (o.nexts = 1 /\ o.responses = <<>>)

\* a valid session of a plain user has been refused with 403
C16_Witness ==
    \E c \in Browsers :
        /\ Gated(c, "admin")
        /\ ValidSession(sessions[c])
        /\ sessions[c].user.role = "user"
        /\ areqs[c].resp.responses = <<Response(403, "Admin access required", NoRow)>>
        /\ areqs[c].resp.nexts = 0

EventOps == {"PUT /events", "DELETE /events"}

\* request s is a PUT or DELETE /events/:id that takes the step that ends it
EndsEventRequest(s) ==
    /\ reqs[s].pc # "done"
    /\ reqs'[s].pc = "done"
    /\ reqs'[s].op \in EventOps

\* user u owns event e or is the administrator
OwnerOrAdmin(u, e) == events[e].created_by = u \/ u = 1

\* the body of a PUT /events/:id breaks a validation rule (its date is not
\* after the time the request arrived, or its capacity is below 1)
MalformedEvent(r) ==
    /\ r.op = "PUT /events"
    /\ (r.eventDate <= r.at \/ (r.maxAttendees # Null /\ r.maxAttendees < 1))

\* an events row changes only in a step of a PUT or DELETE of that event by
\* its owner or the administrator
OnlyOwnerOrAdminWrites ==
    \A e \in EventIds :
        events'[e] # events[e] =>
            \E s \in Slots :
                /\ reqs[s].op \in EventOps
                /\ reqs[s].eventId = e
                /\ reqs[s].pc # reqs'[s].pc
                /\ OwnerOrAdmin(reqs[s].user, e)

\* the request ends before its write step, the store as it was
RefusedBeforeWrite(s, code) ==
    /\ reqs'[s].resp.code = code
    /\ reqs[s].pc \in {"idle", "putEventCheck", "deleteEventCheck"}
    /\ StoreUnchanged

\* C17 as stated: an events row is updated or deleted only by its owner or
\* the administrator; every PUT or DELETE /events/:id of another logged-in
\* user ends with 403 and the event and its RSVPs unchanged, and every one
\* naming a missing event ends with 404.
C17_AsStated ==
    [][/\ OnlyOwnerOrAdminWrites
       /\ \A s \in Slots : EndsEventRequest(s) =>
             LET r == reqs'[s]
             IN IF r.eventId \notin EventIds \/ events[r.eventId] = NoRow
                THEN RefusedBeforeWrite(s, 404)
                ELSE ~OwnerOrAdmin(r.user, r.eventId)
                        => RefusedBeforeWrite(s, 403)]_vars

\* C17 amended: as stated for DELETE and for a PUT whose body passes
\* validation; a PUT whose body does not is refused with 400 before the
\* event is looked up, whoever sends it and whether the event exists, and
\* writes nothing.
C17_OwnerOrAdminOnly ==
    [][/\ OnlyOwnerOrAdminWrites
       /\ \A s \in Slots : EndsEventRequest(s) =>
             LET r == reqs'[s]
             IN IF MalformedEvent(r)
                THEN RefusedBeforeWrite(s, 400) /\ reqs[s].pc = "idle"
                ELSE IF r.eventId \notin EventIds \/ events[r.eventId] = NoRow
                THEN RefusedBeforeWrite(s, 404)
                ELSE ~OwnerOrAdmin(r.user, r.eventId)
                        => RefusedBeforeWrite(s, 403)]_vars

\* a PUT of a user who neither owns the event nor is the administrator has
\* been refused, the event holding an RSVP
C17_Witness ==
    \E s \in Slots :
        /\ Done(s)
        /\ reqs[s].op = "PUT /events"
        /\ reqs[s].resp.code = 403
        /\ events[reqs[s].eventId].created_by # reqs[s].user
        /\ \E r \in rsvps : r.event_id = reqs[s].eventId

\* browser c takes the step that leaves pc
AuthLeaves(c, pc) == areqs[c].pc = pc /\ areqs'[c].pc # pc

\* the rows of users that a login name designates
Designated(name) == {u \in users : u.username = name \/ u.email = name}

InvalidLogin == [code |-> 401, text |-> "Invalid username or password",
                 user |-> NoRow]

\* C18: a login with a name that no user has and a login with a known name
\* and a wrong password get the same response, 401 with the same message and
\* nothing else, and both leave the session as it was.
C18_LoginFailuresAlike ==
    [][\A c \in Browsers : AuthLeaves(c, "loginCheck") =>
        LET r == areqs[c]
            unknown == Designated(r.username) = {}
            mismatch == /\ Designated(r.username) # {}
                        /\ \A u \in Designated(r.username) :
                              u.password_hash # <<"bcrypt", r.password>>
        IN (unknown \/ mismatch) =>
              /\ areqs'[c].pc = "done"
              /\ areqs'[c].resp = InvalidLogin
              /\ sessions' = sessions
              /\ users' = users]_vars

\* one anonymous browser was refused for a name nobody has, the other for a
\* wrong password of an existing user, with equal responses
C18_Witness ==
    \E c \in Browsers, d \in Browsers :
        /\ AuthDone(c) /\ AuthDone(d)
        /\ areqs[c].op = "POST /auth/login"
        /\ areqs[d].op = "POST /auth/login"
        /\ Designated(areqs[c].username) = {}
        /\ Designated(areqs[d].username) # {}
        /\ areqs[c].password = areqs[d].password
        /\ areqs[c].resp = areqs[d].resp
        /\ areqs[c].resp.code = 401
        /\ sessions[c] = Anonymous /\ sessions[d] = Anonymous

\* C19: a session becomes authenticated only in the step of a login or a
\* registration that succeeds, as the user logged in or registered, becomes
\* anonymous only in a logout, and is otherwise left alone, a failed login
\* included; the required-authenticated gate lets a request through exactly
\* when its session is authenticated.
C19_SessionLifecycle ==
    [][\A c \in Browsers :
        /\ sessions'[c] # sessions[c] =>
              /\ areqs'[c].pc = "done"
              /\ areqs[c].pc # "done"
              /\ \/ /\ areqs'[c].op = "POST /auth/login"
                    /\ areqs'[c].resp.code = 200
                    /\ \E u \in Designated(areqs[c].username) :
                          /\ u.password_hash = <<"bcrypt", areqs[c].password>>
                          /\ sessions'[c].user.id = u.id
                 \/ /\ areqs'[c].op = "POST /auth/register"
                    /\ areqs'[c].resp.code = 201
                    /\ sessions'[c].user.id = areqs[c].lastID
                    /\ sessions'[c].user.username = areqs[c].username
                 \/ /\ areqs'[c].op = "POST /auth/logout"
                    /\ areqs'[c].resp.code = 200
                    /\ sessions'[c] = Anonymous
        /\ (areqs[c].pc # "done" /\ areqs'[c].pc = "done") =>
              /\ (areqs'[c].op \in {"POST /auth/login", "POST /auth/register"}
                  /\ areqs'[c].resp.code \in {200, 201})
                    => /\ sessions'[c] # Anonymous
                       /\ sessions'[c].user = areqs'[c].resp.user
              /\ (areqs'[c].op \in {"POST /auth/login", "POST /auth/register"}
                  /\ areqs'[c].resp.code \notin {200, 201})
                    => sessions'[c] = sessions[c]
              /\ areqs'[c].op = "POST /auth/logout" => sessions'[c] = Anonymous
              /\ areqs'[c].op = "auth" =>
                    (areqs'[c].resp.nexts = 1 <=> sessions[c] # Anonymous)
        /\ sessions'[c] # Anonymous =>
              \E u \in users' : /\ sessions'[c].user.id = u.id
                                /\ sessions'[c].user.username = u.username]_vars

\* the session of a registered user is let through the gate while the other
\* browser, after a failed login, is still anonymous
C19_Witness ==
    \E c \in Browsers, d \in Browsers :
        /\ Gated(c, "auth")
        /\ areqs[c].resp.nexts = 1
        /\ sessions[c].user.id > 1
        /\ AuthDone(d)
        /\ areqs[d].op = "POST /auth/login"
        /\ areqs[d].resp.code = 401
        /\ sessions[d] = Anonymous

\* C20: every POST /rsvps that reports success returns the persisted row of
\* its (user, event) pair, and the row returned carries the status and the
\* note the request asked for, whatever other requests interleave between
\* the request's write and its final re-read.
C20_ReturnsRequestedRecord ==
    \A s \in Slots :
        (Done(s) /\ reqs[s].op = "POST /rsvps" /\ reqs[s].resp.code = 200) =>
            /\ reqs[s].resp.rsvp # NoRow
            /\ reqs[s].resp.rsvp.user_id = reqs[s].user
            /\ reqs[s].resp.rsvp.event_id = reqs[s].eventId
            /\ reqs[s].resp.rsvp.status = reqs[s].status
            /\ reqs[s].resp.rsvp.notes = StoredNotes(reqs[s].notes)

\* the statements of POST /rsvps in the order the handler issues them
StepRank(pc) ==
    CASE pc = "idle" -> 0
      [] pc = "getEvent" -> 1
      [] pc = "countAttending" -> 2
      [] pc = "findExisting" -> 3
      [] pc \in {"updateRSVP", "insertRSVP"} -> 4
      [] pc = "getRSVPDetails" -> 5
      [] pc = "done" -> 6
      [] OTHER -> 7

\* the step of slot s in which the store statement at pc fails
StoreFailure(s) ==
    \/ GetEvent(s, TRUE) \/ CountAttending(s, TRUE) \/ FindExisting(s, TRUE)
    \/ UpdateRSVP(s, TRUE) \/ InsertRSVP(s, TRUE) \/ GetRSVPDetails(s, TRUE)

StoreFailureTexts ==
    {"Database error", "Failed to update RSVP", "Failed to create RSVP",
     "RSVP saved but fetch failed"}

\* a request holds a response exactly when it is done
OneResponse(r) == (r.pc = "done") <=> (r.resp # NoRow)

\* C21: in POST /rsvps a failure of any store statement ends the request in
\* that step with a 500 store-failure response and writes nothing, no
\* statement is issued twice and none after the response, a request holds a
\* response exactly when it is done, and every request that was begun is
\* answered.
C21_FailureIsTerminal ==
    /\ [][\A s \in Slots :
            /\ (reqs[s].op = "POST /rsvps" /\ StoreFailure(s)) =>
                  /\ reqs'[s].pc = "done"
                  /\ reqs'[s].resp.code = 500
                  /\ reqs'[s].resp.text \in StoreFailureTexts
                  /\ StoreUnchanged
            /\ (reqs'[s].op = "POST /rsvps" /\ reqs'[s] # reqs[s]) =>
                  /\ StepRank(reqs'[s].pc) > StepRank(reqs[s].pc)
                  /\ OneResponse(reqs'[s])
            /\ (reqs[s].pc = "done" /\ reqs'[s] # reqs[s]) =>
                  reqs'[s] = Idle /\ StoreUnchanged]_vars
    /\ \A s \in Slots : InFlight(s) ~> Done(s)

\* a POST /rsvps whose final re-read failed: answered 500 with its row stored
C21_Witness ==
    \E s \in Slots :
        /\ Done(s)
        /\ reqs[s].op = "POST /rsvps"
        /\ reqs[s].resp.text = "RSVP saved but fetch failed"
        /\ RowsOf(reqs[s].user, reqs[s].eventId) # {}

\* a GET /events that has been answered
Listing(s) == Done(s) /\ reqs[s].op = "GET /events" /\ reqs[s].resp.code = 200

\* C22: GET /events returns only events whose status is 'active', ordered by
\* event date ascending, each annotated with the number of rsvps rows with
\* status 'attending' for that event at the time of the read.
C22_ActiveOrderedCounted ==
    \A s \in Slots : Listing(s) =>
        LET list == reqs[s].resp.events
        IN /\ \A i \in 1..Len(list) :
                 /\ events[list[i].id] # NoRow
                 /\ events[list[i].id].status = "active"
                 /\ list[i].rsvp_count =
                       Cardinality({r \in rsvps : /\ r.event_id = list[i].id
                                                  /\ r.status = "attending"})
           /\ \A i, j \in 1..Len(list) :
                 i < j => Instant(list[i].event_date) <= Instant(list[j].event_date)

\* the positions of a list whose row has the status
InBucket(list, status) == {i \in 1..Len(list) : list[i].status = status}

\* the rows of a list, each with the number of times it occurs
Occurrences(list, row) == Cardinality({i \in 1..Len(list) : list[i] = row})

\* C23: GET /rsvps/event/:eventId writes nothing and returns the RSVPs of the
\* event, latest response first, with three buckets that partition the
\* list: every returned row is in exactly one of them, total is the sum of
\* their sizes and attending_count the size of the attending bucket.
C23_BucketsPartition ==
    [][\A s \in Slots :
        (reqs[s].pc = "idle" /\ reqs'[s].op = "GET /rsvps/event") =>
            LET a == reqs'[s].resp
                list == a.rsvps
                g == a.grouped
            IN /\ StoreUnchanged
               /\ Len(list) = Cardinality({r \in rsvps :
                                              r.event_id = reqs'[s].eventId})
               /\ \A r \in rsvps : r.event_id = reqs'[s].eventId =>
                     \E i \in 1..Len(list) :
                        /\ list[i].status = r.status
                        /\ list[i].notes = r.notes
                        /\ list[i].rsvp_date = r.rsvp_date
               /\ \A i, j \in 1..Len(list) :
                     i < j => list[i].rsvp_date >= list[j].rsvp_date
               /\ \A i \in 1..Len(list) :
                     Occurrences(g.attending, list[i])
                       + Occurrences(g.maybe, list[i])
                       + Occurrences(g.not_attending, list[i]) = 1
               /\ a.total = Len(list)
               /\ a.total = Len(g.attending) + Len(g.maybe) + Len(g.not_attending)
               /\ a.attending_count = Len(g.attending)
               /\ a.attending_count = Cardinality(InBucket(list, "attending"))]_vars

\* an answer with two RSVPs given at different times that fall into
\* different buckets, one of them not_attending
C23_Witness ==
    \E s \in Slots :
        /\ Done(s)
        /\ reqs[s].op = "GET /rsvps/event"
        /\ reqs[s].resp.total = 2
        /\ reqs[s].resp.rsvps[1].rsvp_date > reqs[s].resp.rsvps[2].rsvp_date
        /\ Len(reqs[s].resp.grouped.not_attending) = 1
        /\ reqs[s].resp.attending_count = 1

\* C24: a POST /rsvps with status 'attending' from a user who already holds
\* an 'attending' row for the event cannot raise the attending count and is
\* never answered with the capacity failure, the event being full or not.
C24_OwnPlaceNotRefused ==
    [][\A s \in Slots :
        (Ends(s) /\ reqs'[s].resp.text = "Event is at full capacity") =>
            ~\E row \in RowsOf(reqs[s].user, reqs[s].eventId) :
                row.status = "attending"]_vars

\* C25: with requests served one at a time, POST /rsvps, DELETE /rsvps and
\* PUT /events/:id (which may set, lower or clear max_attendees) mixed, no
\* event that declares a capacity has more 'attending' rows than that
\* capacity.
C25_CapacityRespectedUnderEdits ==
    \A e \in EventIds :
        (events[e] # NoRow /\ events[e].max_attendees # Null) =>
            Cardinality({r \in rsvps : r.event_id = e /\ r.status = "attending"})
                <= events[e].max_attendees

\* C26: in every reachable state every rsvps row references an events row
\* and a users row that exist; no row of a deleted event is left, also when
\* the DELETE /events/:id falls between the event lookup and the insert of a
\* POST /rsvps.
C26_RsvpsReferToRows ==
    \A r \in rsvps :
        /\ r.event_id \in EventIds
        /\ events[r.event_id] # NoRow
        /\ \E u \in users : u.id = r.user_id

\* C27: a PUT /events/:id or DELETE /events/:id reports success only if its
\* write statement changed an events row that existed at that moment: a
\* DELETE statement whose callback answers 'Event deleted successfully', and
\* an UPDATE statement whose callback goes on to the re-read that answers
\* 'Event updated successfully', found the row of the event in the table.
C27_SuccessMeansRowWritten ==
    [][\A s \in Slots :
        /\ (Leaves(s, "deleteEvent") /\ reqs'[s].resp.code = 200) =>
              events[reqs[s].eventId] # NoRow
        /\ (Leaves(s, "updateEvent") /\ reqs'[s].pc = "getUpdatedEvent") =>
              events[reqs[s].eventId] # NoRow
        /\ (Leaves(s, "getUpdatedEvent") /\ reqs'[s].resp.code = 200) =>
              reqs'[s].resp.text = "Event updated successfully"]_vars

\* C28: no request changes the owner or the lifecycle status of an event: an
\* events row appears only by the INSERT of a POST /events, owned by the
\* session user of that request and 'active'; a row that stays keeps its
\* created_by and its status, whatever PUT /events/:id writes; and so at the
\* write of a PUT or DELETE the row, if it is still there, still belongs to
\* the owner that the pre-read let through.
C28_OwnerAndStatusKept ==
    [][\A e \in EventIds :
        /\ (events[e] # NoRow /\ events'[e] # NoRow) =>
              /\ events'[e].created_by = events[e].created_by
              /\ events'[e].status = events[e].status
        /\ (events[e] = NoRow /\ events'[e] # NoRow) =>
              \E s \in Slots :
                 /\ Leaves(s, "insertEvent")
                 /\ reqs[s].op = "POST /events"
                 /\ e = nextEventId
                 /\ events'[e].created_by = reqs[s].user
                 /\ events'[e].status = "active"
        /\ \A s \in Slots :
              ((Leaves(s, "updateEvent") \/ Leaves(s, "deleteEvent"))
               /\ reqs[s].eventId = e /\ events[e] # NoRow) =>
                 (events[e].created_by = reqs[s].user
                  \/ Role(reqs[s].user) = "admin")]_vars

\* the PUT of a plain user on their own cancelled event has been answered:
\* the row has the new date and is still cancelled and still theirs
C28_Witness ==
    \E s \in Slots :
        /\ Done(s)
        /\ reqs[s].op = "PUT /events"
        /\ reqs[s].resp.code = 200
        /\ reqs[s].resp.rsvp # NoRow
        /\ reqs[s].resp.rsvp.status = "cancelled"
        /\ reqs[s].resp.rsvp.created_by = reqs[s].user
        /\ reqs[s].user # 1
        /\ reqs[s].resp.rsvp.event_date = reqs[s].eventDate

====
